---- MODULE Spec2Model ----
(***************************************************************************)
(* A model of the retrieval-augmented conversation pipeline of AgenteHR:   *)
(* the context budgeter (get_context), the per-session conversation        *)
(* memory (SimpleMemoryManager), the response normaliser                   *)
(* (_generate_response), the upload store (FileProcessor) and the          *)
(* orchestrator (TVAgent.process_message behind the /api/chat handler).    *)
(*                                                                         *)
(* Text is a sequence of one-character strings, so that strip(), slicing,  *)
(* startswith() and len() are computed as Python computes them.  A fixed   *)
(* literal of the code (an apology sentence, an error message) is kept as  *)
(* a text of one atom holding the whole literal.                           *)
(***************************************************************************)
EXTENDS Integers, Sequences, FiniteSets, TLC

VARIABLES
    ctxImpl,      \* get_context under test: "none", "azure" or "vector"
    ctxResults,   \* its results argument: a sequence of snippets
    ctxMax,       \* its max_length argument
    ctxOut,       \* the string it returned
    sessions,     \* SimpleMemoryManager.sessions: session id -> list of exchanges
    clock,        \* the wall clock datetime.now() reads
    appended,     \* history variable: per session id, every exchange that
                  \* add_message was called with since the session was last cleared
    normAgent,    \* _generate_response under test: "none", "tv" or "hr"
    normOutcome,  \* what its provider call does
    normOut,      \* what it did: Return(text) or Raise(excText)
    threads,      \* two request threads inside add_message: per thread its
                  \* position (pc) and its locals
    uploads,      \* the upload folder: stored file name -> [size, body, mtime]
    outside,      \* files written outside the upload folder: path -> file
    fop,          \* the file store's own specification: the last operation
                  \* called on it and what it returned (a history variable)
    azure,        \* the AzureSearchClient object: enabled, vector_mode, embeddings
    vds,          \* the VectorDocumentSearch object: use_keyword_search,
                  \* embeddings, vectorstore (loaded or not)
    sop,          \* the last search call and what it returned (a history
                  \* variable)
    llm,          \* the chat model object get_azure_llm built: its class and
                  \* the keyword arguments the base constructor received
    mop,          \* the last get_session_info call since the last write to the
                  \* memory, and what it returned (a history variable)
    llmCalls,     \* history variable: the keyword parameters of every call
                  \* passed on to the base class's invoke
    cmm,          \* the ConversationMemoryManager object: active_memories and
                  \* session_timestamps; touched, written and ops are history
                  \* fields
    req           \* the request being served, a chat or an upload: the
                  \* handler's position (pc), the locals of process_message,
                  \* the record the agent returned (result) and the HTTP
                  \* answer; exc (the text of the exception caught),
                  \* providerFailed, the call counts and memAtStart are
                  \* history variables

ctxVars == <<ctxImpl, ctxResults, ctxMax, ctxOut>>
memVars == <<sessions, clock, appended>>
normVars == <<normAgent, normOutcome, normOut>>
pipeVars == <<uploads, outside, fop, req>>
concVars == <<threads>>
toolVars == <<azure, vds, sop, mop, llm, llmCalls, cmm>>
vars == <<ctxImpl, ctxResults, ctxMax, ctxOut, sessions, clock, appended,
          normAgent, normOutcome, normOut, threads, uploads, outside, fop,
          azure, vds, sop, mop, llm, llmCalls, cmm, req>>

(***************************************************************************)
(* Text helpers                                                            *)
(***************************************************************************)

\* c repeated n times
Rep(c, n) == [i \in 1..n |-> c]

\* str.isspace() on one character
IsSpace(c) == c \in {" ", "\n", "\t"}

\* str.strip(): leading and trailing whitespace removed
RECURSIVE LStrip(_)
LStrip(s) == IF s /= <<>> /\ IsSpace(Head(s)) THEN LStrip(Tail(s)) ELSE s

RECURSIVE RStrip(_)
RStrip(s) ==
    IF s /= <<>> /\ IsSpace(s[Len(s)]) THEN RStrip(SubSeq(s, 1, Len(s) - 1)) ELSE s

Strip(s) == RStrip(LStrip(s))

\* s[:n] of Python: the first n characters, or all but the last -n when n < 0
SliceTo(s, n) ==
    IF n >= 0
    THEN SubSeq(s, 1, IF n < Len(s) THEN n ELSE Len(s))
    ELSE SubSeq(s, 1, IF Len(s) + n > 0 THEN Len(s) + n ELSE 0)

\* sep.join(parts)
RECURSIVE Join(_, _)
Join(parts, sep) ==
    IF parts = <<>> THEN <<>>
    ELSE IF Len(parts) = 1 THEN parts[1]
    ELSE parts[1] \o sep \o Join(Tail(parts), sep)

\* s.startswith(p)
StartsWith(s, p) == Len(p) <= Len(s) /\ SubSeq(s, 1, Len(p)) = p

Ellipsis == <<".", ".", ".">>
NL == <<"\n">>

(***************************************************************************)
(* ContextBudgeter: get_context of AzureSearchClient and of                *)
(* VectorDocumentSearch.  A snippet is [content, title].                   *)
(***************************************************************************)

\* remaining > 100: the least budget worth a truncated chunk
MinRemaining == 100

\* f"**{title}**\n{content}\n" if title else f"{content}\n"
FormatChunk(title, content) ==
    IF title /= <<>>
    THEN <<"*", "*">> \o title \o <<"*", "*">> \o NL \o content \o NL
    ELSE content \o NL

\* mutant: the three characters of the marker are not reserved
TruncateChunk_NoReserve(chunk, remaining) == SliceTo(chunk, remaining) \o Ellipsis

\* chunk[:remaining-3] + "..."
TruncateChunk(chunk, remaining) == SliceTo(chunk, remaining - 3) \o Ellipsis

\* the length the loop has accounted for after adding a whole chunk
AddLength(length, chunk) == length + Len(chunk)

\* mutant: a chunk that does not fit is passed over and the loop goes on
RECURSIVE ContextLoop_PastMisfit(_, _, _, _, _, _)
ContextLoop_PastMisfit(results, i, parts, length, max_length, skipEmpty) ==
    IF i > Len(results) THEN parts
    ELSE LET content == Strip(results[i].content)
             chunk == FormatChunk(results[i].title, content)
         IN  IF skipEmpty /\ content = <<>>
             THEN ContextLoop_PastMisfit(results, i + 1, parts, length, max_length,
                                         skipEmpty)
             ELSE IF length + Len(chunk) <= max_length
             THEN ContextLoop_PastMisfit(results, i + 1, Append(parts, chunk),
                                         AddLength(length, chunk), max_length, skipEmpty)
             ELSE ContextLoop_PastMisfit(results, i + 1, parts, length, max_length,
                                         skipEmpty)

\* The loop body shared by both implementations, from snippet i on: parts is the
\* list built so far and length the running length.  skipEmpty is the azure
\* client's "if not content: continue".
RECURSIVE ContextLoop(_, _, _, _, _, _)
ContextLoop(results, i, parts, length, max_length, skipEmpty) ==
    IF i > Len(results) THEN parts
    ELSE LET content == Strip(results[i].content)
             chunk == FormatChunk(results[i].title, content)
         IN  IF skipEmpty /\ content = <<>>
             THEN ContextLoop(results, i + 1, parts, length, max_length, skipEmpty)
             ELSE IF length + Len(chunk) <= max_length
             THEN ContextLoop(results, i + 1, Append(parts, chunk),
                              AddLength(length, chunk), max_length, skipEmpty)
             ELSE LET remaining == max_length - length
                  IN  IF remaining > MinRemaining
                      THEN Append(parts, TruncateChunk(chunk, remaining))
                      ELSE parts

\* AzureSearchClient.get_context(results, max_length)
AzureGetContext(results, max_length) ==
    IF results = <<>> THEN <<>>
    ELSE Join(ContextLoop(results, 1, <<>>, 0, max_length, TRUE), NL)

\* VectorDocumentSearch.get_context(results, max_length)
VectorGetContext(results, max_length) ==
    IF results = <<>> THEN <<>>
    ELSE Join(ContextLoop(results, 1, <<>>, 0, max_length, FALSE), NL)

GetContext(impl, results, max_length) ==
    IF impl = "azure" THEN AzureGetContext(results, max_length)
    ELSE VectorGetContext(results, max_length)

(***************************************************************************)
(* ConversationMemory: SimpleMemoryManager.  sessions is a dict: a         *)
(* function whose domain is the set of session ids that have an entry.     *)
(* An exchange is [human, ai, timestamp].                                  *)
(***************************************************************************)

\* len(...) > 10 and [-10:]: the exchanges a session retains
HistoryCap == 10

\* s[-n:] of Python, n > 0: the last n elements
LastN(s, n) == IF Len(s) <= n THEN s ELSE SubSeq(s, Len(s) - n + 1, Len(s))

\* if session_id not in self.sessions: self.sessions[session_id] = []
EnsureSession(sess, sid) ==
    IF sid \notin DOMAIN sess THEN sess @@ (sid :> <<>>) ELSE sess

\* message_entry
MessageEntry(human, ai, now) == [human |-> human, ai |-> ai, timestamp |-> now]

\* mutant: the exchange is appended twice
AppendEntry_Twice(sess, sid, entry) == [sess EXCEPT ![sid] = Append(Append(@, entry), entry)]

\* self.sessions[session_id].append(message_entry)
AppendEntry(sess, sid, entry) == [sess EXCEPT ![sid] = Append(@, entry)]

\* mutant: the first ten exchanges are kept instead of the last ten
TrimSession_KeepFirst(sess, sid) ==
    IF Len(sess[sid]) > HistoryCap
    THEN [sess EXCEPT ![sid] = SubSeq(@, 1, HistoryCap)]
    ELSE sess

\* if len(self.sessions[session_id]) > 10: ... = self.sessions[session_id][-10:]
TrimSession(sess, sid) ==
    IF Len(sess[sid]) > HistoryCap
    THEN [sess EXCEPT ![sid] = LastN(@, HistoryCap)]
    ELSE sess

\* SimpleMemoryManager.add_message, run without interruption
AddMessage(sess, sid, human, ai, now) ==
    TrimSession(AppendEntry(EnsureSession(sess, sid), sid,
                            MessageEntry(human, ai, now)), sid)

\* SimpleMemoryManager.get_conversation_history
GetConversationHistory(sess, sid) == IF sid \in DOMAIN sess THEN sess[sid] ELSE <<>>

\* mutant: clear_session empties the whole dict
ClearSession_Everything(sess, sid) == <<>>

\* SimpleMemoryManager.clear_session
ClearSession(sess, sid) == [k \in DOMAIN sess \ {sid} |-> sess[k]]

(***************************************************************************)
(* ConversationMemoryManager, the memory with expiry and a session cap.    *)
(* The object is [active_memories, session_timestamps]: session id -> the  *)
(* number of exchanges saved in its langchain memory, and session id ->    *)
(* the time get_memory last stamped.  Times are in minutes.                *)
(***************************************************************************)

\* self.max_sessions = 100
MaxSessions == 100

\* self.session_timeout = timedelta(hours=24), in minutes
SessionTimeout == 1440

\* ConversationMemoryManager.__init__
CmmIdle ==
    [ active_memories |-> <<>>, session_timestamps |-> <<>>,
      touched |-> <<>>, written |-> <<>>, ops |-> 0 ]

\* del dict[key] when the key is there
Del(dict, key) == [k \in DOMAIN dict \ {key} |-> dict[k]]

\* dict[key] = value
Put(dict, key, value) == [k \in DOMAIN dict \cup {key} |-> IF k = key THEN value ELSE dict[k]]

\* ConversationMemoryManager.clear_session
CmmClearSession(self, sid) ==
    [self EXCEPT !.active_memories = Del(@, sid), !.session_timestamps = Del(@, sid)]

\* the sessions whose stamp is more than the timeout old
ExpiredSessions(self, now) ==
    { sid \in DOMAIN self.session_timestamps :
          now - self.session_timestamps[sid] > SessionTimeout }

RECURSIVE ClearAll(_, _)
ClearAll(self, sids) ==
    IF sids = {} THEN self
    ELSE LET sid == CHOOSE s \in sids : TRUE
         IN  ClearAll(CmmClearSession(self, sid), sids \ {sid})

\* sorted(session_timestamps.items(), key=timestamp)[:n], cleared one by one
RECURSIVE EvictOldest(_, _)
EvictOldest(self, n) ==
    IF n <= 0 \/ self.session_timestamps = <<>> THEN self
    ELSE LET stamps == self.session_timestamps
             oldest == CHOOSE s \in DOMAIN stamps :
                           \A t \in DOMAIN stamps : stamps[s] <= stamps[t]
         IN  EvictOldest(CmmClearSession(self, oldest), n - 1)

\* ConversationMemoryManager._cleanup_expired_sessions
CleanupExpiredSessions(self, now) ==
    LET kept == ClearAll(self, ExpiredSessions(self, now))
    IN  IF Cardinality(DOMAIN kept.active_memories) > MaxSessions
        THEN EvictOldest(kept, Cardinality(DOMAIN kept.session_timestamps) - MaxSessions)
        ELSE kept

\* ConversationMemoryManager.get_memory: the object afterwards
CmmGetMemory(self, sid, now) ==
    LET cleaned == CleanupExpiredSessions(self, now)
    IN  [cleaned EXCEPT
            !.active_memories = IF sid \in DOMAIN @ THEN @ ELSE Put(@, sid, 0),
            !.session_timestamps = Put(@, sid, now)]

\* ConversationMemoryManager.add_message
CmmAddMessage(self, sid, now) ==
    LET got == CmmGetMemory(self, sid, now)
    IN  [got EXCEPT !.active_memories[sid] = @ + 1]

\* ConversationMemoryManager.get_session_info
CmmGetSessionInfo(self, sid) ==
    IF sid \notin DOMAIN self.active_memories THEN [ exists |-> FALSE ]
    ELSE [ exists |-> TRUE,
           last_activity |-> self.session_timestamps[sid],
           message_count |-> 2 * self.active_memories[sid] ]

\* SimpleMemoryManager.get_session_info; None is 0 (the clock starts at 1)
GetSessionInfo(sess, sid) ==
    LET history == GetConversationHistory(sess, sid)
    IN  [ session_id |-> sid,
          message_count |-> Len(history),
          last_activity |-> IF history /= <<>>
                            THEN history[Len(history)].timestamp ELSE 0,
          created |-> IF history /= <<>> THEN history[1].timestamp ELSE 0 ]

\* get_session_info reading the history the way get_memory of
\* ConversationMemoryManager does: the session is created when missing
InfoCall_Creating(sess, sid) ==
    [ sessions |-> IF sid \in DOMAIN sess THEN sess ELSE (sid :> <<>>) @@ sess,
      out |-> GetSessionInfo(sess, sid) ]

\* a call of get_session_info: the sessions after it and what it returned
InfoCall(sess, sid) == [ sessions |-> sess, out |-> GetSessionInfo(sess, sid) ]

(***************************************************************************)
(* ResponseNormalizer: _generate_response of TVAgent and of HRAgentSimple. *)
(* What the provider call did is a record                                  *)
(*   [raises, excText, shape, isStr, text]:                                *)
(* raises: llm.invoke raised an exception whose str() is excText;          *)
(* shape: what it returned otherwise: "none" (None), "str" (a string,      *)
(* text), "object" (an object with a content attribute), "dict" (a dict    *)
(* with a 'content' key), "dict_other" (a dict without one), "other" (off  *)
(* shape), "object_raising" (reading the content attribute raises          *)
(* excText); isStr and text describe the content of an object or dict.     *)
(***************************************************************************)

\* str.lower(), on the letters the modelled texts use
LowerChar(c) ==
    CASE c = "T" -> "t" [] c = "U" -> "u" [] c = "P" -> "p" [] c = "D" -> "d"
      [] c = "F" -> "f" [] c = "O" -> "o" [] c = "M" -> "m" [] OTHER -> c
Lower(s) == [i \in 1..Len(s) |-> LowerChar(s[i])]

\* sub in s
Contains(s, sub) ==
    \E i \in 1..(Len(s) - Len(sub) + 1) : SubSeq(s, i, i + Len(sub) - 1) = sub

\* the outcome of a block of code: a returned string, or a raised exception
Return(text) == [raised |-> FALSE, text |-> text]
Raise(excText) == [raised |-> TRUE, text |-> excText]

\* the sentences of TVAgent._generate_response
TVApologyNone ==
    <<"I'm sorry, I couldn't generate a response at this time. Please try again.">>
TVFallback ==
    <<"I couldn't generate an adequate response. Please rephrase your question.">>
TVApologyFormat == <<"I'm sorry, there was a technical problem. Please try again.">>
TVConfigProblem ==
    <<"I'm sorry, there was a model configuration problem. The technical team has been notified.">>
TVTechnicalProblem ==
    <<"I'm sorry, I encountered a technical problem. Please try again later.">>

\* the sentences of HRAgentSimple._generate_response (accents dropped)
HRApologyNone ==
    <<"Lo siento, no pude generar una respuesta en este momento. Por favor intenta de nuevo.">>
HRFallback ==
    <<"No pude generar una respuesta adecuada. Por favor reformula tu pregunta.">>
HRApologyFormat == <<"Lo siento, hubo un problema tecnico. Por favor intenta de nuevo.">>
HRTechnicalProblem ==
    <<"Lo siento, encontre un problema tecnico. Por favor intenta de nuevo en un momento.">>

UnsupportedParameter == <<"u", "n", "s", "u", "p", "p", "o", "r", "t", "e", "d", " ", "p", "a", "r", "a", "m", "e", "t", "e", "r">>
Temperature == <<"t", "e", "m", "p", "e", "r", "a", "t", "u", "r", "e">>

\* mutant: the content of an object or dict is returned without strip()
ContentResponse_NoStrip(o, fallback) ==
    IF o.isStr /\ Strip(o.text) /= <<>> THEN Return(o.text) ELSE Return(fallback)

\* response = result.content (or result['content']);
\* if isinstance(response, str) and response.strip(): return response.strip()
ContentResponse(o, fallback) ==
    IF o.isStr /\ Strip(o.text) /= <<>> THEN Return(Strip(o.text)) ELSE Return(fallback)

\* mutant: an off-shape result gets the sentence of the exception handler
OffShapeResponse_AsException(apologyFormat, technicalProblem) == Return(technicalProblem)

\* the final "Fallback" return of the try block
OffShapeResponse(apologyFormat, technicalProblem) == Return(apologyFormat)

\* the body of the try block, given the three sentences of the agent
TryBlock(o, apologyNone, fallback, apologyFormat, technicalProblem) ==
    IF o.raises THEN Raise(o.excText)
    ELSE IF o.shape = "none" THEN Return(apologyNone)
    ELSE IF o.shape = "str"
    THEN IF Strip(o.text) /= <<>> THEN Return(Strip(o.text)) ELSE Return(fallback)
    ELSE IF o.shape = "object_raising" THEN Raise(o.excText)
    ELSE IF o.shape = "object" THEN ContentResponse(o, fallback)
    ELSE IF o.shape = "dict" THEN ContentResponse(o, fallback)
    ELSE OffShapeResponse(apologyFormat, technicalProblem)

\* mutant: the handler logs and re-raises
TVExceptBlock_Reraise(excText) == Raise(excText)

\* except Exception as e, in TVAgent
TVExceptBlock(excText) ==
    LET error_msg == Lower(excText)
    IN  IF Contains(error_msg, UnsupportedParameter) \/ Contains(error_msg, Temperature)
        THEN Return(TVConfigProblem)
        ELSE Return(TVTechnicalProblem)

\* except Exception as e, in HRAgentSimple
HRExceptBlock(excText) == Return(HRTechnicalProblem)

\* TVAgent._generate_response
TVGenerateResponse(o) ==
    LET r == TryBlock(o, TVApologyNone, TVFallback, TVApologyFormat, TVTechnicalProblem)
    IN  IF r.raised THEN TVExceptBlock(r.text) ELSE r

\* HRAgentSimple._generate_response
HRGenerateResponse(o) ==
    LET r == TryBlock(o, HRApologyNone, HRFallback, HRApologyFormat, HRTechnicalProblem)
    IN  IF r.raised THEN HRExceptBlock(r.text) ELSE r

(***************************************************************************)
(* FileContextStore: FileProcessor.  The upload folder is a function from  *)
(* the name of a stored file to [size, body]; body is the text the         *)
(* extraction libraries find in the file (empty: none).                    *)
(* An uploaded file is [filename, size, body].  A stored file is           *)
(* [size, body, mtime].  Files that a save wrote to a path outside the     *)
(* upload folder are kept apart, by path.                                  *)
(***************************************************************************)

\* MAX_FILE_SIZE = 10 * 1024 * 1024
MaxFileSize == 10485760

Pdf == <<"p", "d", "f">>
Xlsx == <<"x", "l", "s", "x">>
\* ALLOWED_EXTENSIONS
AllowedExtensions == { Pdf, Xlsx }

\* the positions of "." in a name
DotPositions(name) == { i \in 1..Len(name) : name[i] = "." }

\* '.' in filename
HasDot(name) == DotPositions(name) /= {}

\* filename.rsplit('.', 1)[1].lower(), for a name with a dot
Extension(name) ==
    LET last == CHOOSE i \in DotPositions(name) : \A j \in DotPositions(name) : j <= i
    IN  Lower(SubSeq(name, last + 1, Len(name)))

\* mutant: any name with a dot is allowed
AllowedFile_AnyDot(filename) == HasDot(filename)

\* FileProcessor.allowed_file
AllowedFile(filename) == HasDot(filename) /\ Extension(filename) \in AllowedExtensions

\* werkzeug's secure_filename: path separators become spaces, runs of
\* whitespace become "_", characters outside [A-Za-z0-9_.-] are dropped, and
\* leading and trailing "." and "_" are stripped
SafeChar(c) == c \notin {"/", " ", "\\", ":", "[", "]", "'"}

RECURSIVE SquashSpaces(_)
SquashSpaces(s) ==
    IF s = <<>> THEN <<>>
    ELSE IF Head(s) \in {" ", "/"}
    THEN IF Len(s) > 1 /\ s[2] \in {" ", "/"}
         THEN SquashSpaces(Tail(s))
         ELSE <<"_">> \o SquashSpaces(Tail(s))
    ELSE <<Head(s)>> \o SquashSpaces(Tail(s))

RECURSIVE LStripDots(_)
LStripDots(s) == IF s /= <<>> /\ Head(s) \in {".", "_"} THEN LStripDots(Tail(s)) ELSE s

RECURSIVE RStripDots(_)
RStripDots(s) ==
    IF s /= <<>> /\ s[Len(s)] \in {".", "_"}
    THEN RStripDots(SubSeq(s, 1, Len(s) - 1)) ELSE s

RECURSIVE TrimEdgeSlashes(_)
TrimEdgeSlashes(s) ==
    IF s /= <<>> /\ Head(s) \in {" ", "/"} THEN TrimEdgeSlashes(Tail(s))
    ELSE IF s /= <<>> /\ s[Len(s)] \in {" ", "/"}
    THEN TrimEdgeSlashes(SubSeq(s, 1, Len(s) - 1))
    ELSE s

SecureFilename(filename) ==
    RStripDots(LStripDots(SelectSeq(SquashSpaces(TrimEdgeSlashes(filename)), SafeChar)))

\* f"{session_id}_"
SessionPrefix(sid) == sid \o <<"_">>

\* upload_folder
UploadFolder == <<"u", "p", "l", "o", "a", "d", "s">>

\* os.path.join(self.upload_folder, name): an absolute name replaces the folder
PathJoin(folder, name) ==
    IF name /= <<>> /\ Head(name) = "/" THEN name ELSE folder \o <<"/">> \o name

\* the name a path inside the upload folder has in the folder
NameOf(path) == SubSeq(path, Len(UploadFolder) + 2, Len(path))

\* path.split("/")
RECURSIVE SplitPath(_, _)
SplitPath(path, part) ==
    IF path = <<>> THEN <<part>>
    ELSE IF Head(path) = "/" THEN <<part>> \o SplitPath(Tail(path), <<>>)
    ELSE SplitPath(Tail(path), Append(part, Head(path)))

DotDot == <<".", ".">>

\* where the operating system finds a path, walking its components from the
\* working directory (or from the root): at is the directory reached, as the
\* components below the start.  The upload folder has no subdirectories, so
\* a directory looked up in it does not exist.
RECURSIVE WalkPath(_, _, _, _)
WalkPath(comps, i, at, absolute) ==
    IF i = Len(comps)
    THEN [ exists |-> TRUE, absolute |-> absolute, at |-> Append(at, comps[i]) ]
    ELSE IF comps[i] \in { <<>>, <<".">> }
    THEN WalkPath(comps, i + 1, at, absolute)
    ELSE IF comps[i] = DotDot
    THEN IF at /= <<>> /\ at[Len(at)] /= DotDot
         THEN WalkPath(comps, i + 1, SubSeq(at, 1, Len(at) - 1), absolute)
         ELSE IF absolute THEN WalkPath(comps, i + 1, at, absolute)
         ELSE WalkPath(comps, i + 1, Append(at, DotDot), absolute)
    ELSE IF ~absolute /\ at = <<UploadFolder>>
    THEN [ exists |-> FALSE, absolute |-> absolute, at |-> at ]
    ELSE WalkPath(comps, i + 1, Append(at, comps[i]), absolute)

ResolvePath(path) == WalkPath(SplitPath(path, <<>>), 1, <<>>, Head(path) = "/")

\* the resolved path is a file of the upload folder
InsideUploadFolder(where) ==
    where.exists /\ ~where.absolute /\ Len(where.at) = 2 /\ where.at[1] = UploadFolder

\* unique_filename = f"{session_id}_{filename}"
UniqueFilename(sid, filename) == SessionPrefix(sid) \o filename

\* file_info
FileInfo(original_name, stored, file_size, sid) ==
    [ original_name |-> original_name,
      file_path |-> stored,
      file_type |-> Extension(original_name),
      file_size |-> file_size,
      session_id |-> sid ]

NoFileInfo == [ none |-> TRUE ]

ErrTypeNotAllowed == <<"File type not allowed. Only pdf, xlsx are supported.">>
ErrTooLarge == <<"File too large. Maximum size is 10MB">>
ErrIndex == <<"list index out of range">>
ErrNoSpace == <<"[Errno 28] No space left on device: '">>
ErrNoDirectory == <<"[Errno 2] No such file or directory: '">>
ErrNoText == <<"No text could be extracted from the PDF">>
ErrNoData == <<"No data could be extracted from the Excel file">>
ErrUnsupportedType == <<"Unsupported file type: ">>

\* the outcome of save_file: raised (with the exception's text), or returned
\* info (NoFileInfo for None); the upload folder and the files outside it
\* afterwards
SaveOutcome(raised, text, info, store, out) ==
    [ raised |-> raised, text |-> text, info |-> info, store |-> store, outside |-> out ]

\* the file as file.save leaves it on disk
StoredFile(file, now) == [ size |-> file.size, body |-> file.body, mtime |-> now ]

\* a store with one file written
WriteFile(store, key, stored) ==
    [k \in DOMAIN store \cup {key} |-> IF k = key THEN stored ELSE store[k]]

\* FileProcessor.save_file; saveFails: file.save raises OSError
SaveFile(store, out, file, sid, saveFails, now) ==
    IF file.filename = <<>> THEN SaveOutcome(FALSE, <<>>, NoFileInfo, store, out)
    ELSE IF ~AllowedFile(file.filename)
    THEN SaveOutcome(TRUE, ErrTypeNotAllowed, NoFileInfo, store, out)
    ELSE IF file.size > MaxFileSize
    THEN SaveOutcome(TRUE, ErrTooLarge, NoFileInfo, store, out)
    ELSE LET filename == SecureFilename(file.filename)
             unique_filename == UniqueFilename(sid, filename)
             file_path == PathJoin(UploadFolder, unique_filename)
             where == ResolvePath(file_path)
         IN  IF ~HasDot(filename)
             THEN SaveOutcome(TRUE, ErrIndex, NoFileInfo, store, out)
             ELSE IF ~where.exists
             THEN SaveOutcome(TRUE, ErrNoDirectory \o file_path \o <<"'">>,
                              NoFileInfo, store, out)
             ELSE IF saveFails
             THEN SaveOutcome(TRUE, ErrNoSpace \o file_path \o <<"'">>,
                              NoFileInfo, store, out)
             ELSE IF InsideUploadFolder(where)
             THEN SaveOutcome(FALSE, <<>>,
                              FileInfo(filename, file_path, file.size, sid),
                              WriteFile(store, where.at[2], StoredFile(file, now)), out)
             ELSE SaveOutcome(FALSE, <<>>,
                              FileInfo(filename, file_path, file.size, sid),
                              store, WriteFile(out, file_path, StoredFile(file, now)))

\* FileProcessor.get_session_files over the names os.listdir returned, in its
\* order: an exception inside the loop ends it and the files found so far are
\* returned
RECURSIVE SessionFilesFrom(_, _, _, _)
SessionFilesFrom(store, listing, sid, found) ==
    IF listing = <<>> THEN found
    ELSE LET filename == Head(listing)
         IN  IF StartsWith(filename, SessionPrefix(sid)) /\ filename \in DOMAIN store
             THEN LET original_name ==
                          SubSeq(filename, Len(SessionPrefix(sid)) + 1, Len(filename))
                  IN  IF ~HasDot(original_name) THEN found
                      ELSE SessionFilesFrom(store, Tail(listing), sid,
                               Append(found, FileInfo(original_name,
                                                      PathJoin(UploadFolder, filename),
                                                      store[filename].size, sid)))
             ELSE SessionFilesFrom(store, Tail(listing), sid, found)

\* listingFails: os.path.exists or os.listdir raises
GetSessionFiles(store, listing, sid, listingFails) ==
    IF listingFails THEN <<>> ELSE SessionFilesFrom(store, listing, sid, <<>>)

\* FileProcessor.process_file (process_pdf, process_excel): the stripped text
\* of the file, or an exception when the file holds none or is gone
ProcessFile(store, file_info) ==
    LET name == NameOf(file_info.file_path)
    IN  IF name \notin DOMAIN store
        THEN Raise(ErrNoDirectory \o file_info.file_path \o <<"'">>)
        ELSE IF file_info.file_type = Pdf
        THEN IF Strip(store[name].body) = <<>>
             THEN Raise(ErrNoText) ELSE Return(Strip(store[name].body))
        ELSE IF file_info.file_type = Xlsx
        THEN IF Strip(store[name].body) = <<>>
             THEN Raise(ErrNoData) ELSE Return(Strip(store[name].body))
        ELSE Raise(ErrUnsupportedType \o file_info.file_type)

\* the orders in which os.listdir may return the names of a folder
Listings(store) ==
    { l \in [1..Cardinality(DOMAIN store) -> DOMAIN store] :
          \A i, j \in 1..Cardinality(DOMAIN store) : i /= j => l[i] /= l[j] }

\* a store with one file removed
RemoveFile(store, key) == [k \in DOMAIN store \ {key} |-> store[k]]

\* the loop of clear_session_files over session_files from position i on;
\* os.remove raises for the names in unremovable, which ends the loop
RECURSIVE RemoveSessionFiles(_, _, _, _)
RemoveSessionFiles(store, session_files, i, unremovable) ==
    IF i > Len(session_files) THEN store
    ELSE LET name == NameOf(session_files[i].file_path)
         IN  IF name \notin DOMAIN store
             THEN RemoveSessionFiles(store, session_files, i + 1, unremovable)
             ELSE IF name \in unremovable THEN store
             ELSE RemoveSessionFiles(RemoveFile(store, name), session_files, i + 1,
                                     unremovable)

\* clear_session_files that removes nothing
ClearSessionFiles_None(store, listing, sid, listingFails, unremovable) == store

\* FileProcessor.clear_session_files: the upload folder afterwards
ClearSessionFiles(store, listing, sid, listingFails, unremovable) ==
    RemoveSessionFiles(store, GetSessionFiles(store, listing, sid, listingFails), 1,
                       unremovable)

SecondsPerHour == 3600

\* mutant: a file whose age is exactly the threshold is deleted too
TooOld_AtThreshold(file_age, max_age_hours) == file_age >= max_age_hours * SecondsPerHour

\* file_age > max_age_seconds
TooOld(file_age, max_age_hours) == file_age > max_age_hours * SecondsPerHour

\* the loop of cleanup_old_files over os.listdir from position i on; os.remove
\* raises for the names in unremovable, which the inner handler logs
RECURSIVE CleanupLoop(_, _, _, _, _, _, _)
CleanupLoop(store, listing, i, now, max_age_hours, unremovable, deleted_count) ==
    IF i > Len(listing) THEN [ store |-> store, deleted_count |-> deleted_count ]
    ELSE LET filename == listing[i]
         IN  IF filename \in DOMAIN store
                /\ TooOld(now - store[filename].mtime, max_age_hours)
                /\ filename \notin unremovable
             THEN CleanupLoop(RemoveFile(store, filename), listing, i + 1, now,
                              max_age_hours, unremovable, deleted_count + 1)
             ELSE CleanupLoop(store, listing, i + 1, now, max_age_hours,
                              unremovable, deleted_count)

\* FileProcessor.cleanup_old_files: the upload folder afterwards and the count
\* returned; listingFails: os.path.exists or os.listdir raises
CleanupOldFiles(store, listing, listingFails, now, max_age_hours, unremovable) ==
    IF listingFails THEN [ store |-> store, deleted_count |-> 0 ]
    ELSE CleanupLoop(store, listing, 1, now, max_age_hours, unremovable, 0)

\* mutant: the failure record carries a fixed sentence
UploadFailure_Generic(excText) == [ success |-> FALSE, error |-> <<"Upload failed">> ]

\* except Exception as e: return {'success': False, 'error': str(e)}
UploadFailure(excText) == [ success |-> FALSE, error |-> excText ]

\* TVAgent.upload_file, given the outcome of save_file
UploadResult(saved) ==
    IF saved.raised THEN UploadFailure(saved.text)
    ELSE IF saved.info /= NoFileInfo
    THEN [ success |-> TRUE,
           file_info |-> saved.info,
           message |-> <<"File '">> \o saved.info.original_name
                       \o <<"' uploaded successfully">> ]
    ELSE [ success |-> FALSE, error |-> <<"No file provided">> ]

(***************************************************************************)
(* ContextSource as the orchestrator sees it: AzureSearchClient.search.    *)
(* What the search does is [kind, docs]: "disabled" (not configured),      *)
(* "bad_count" (SEARCH_RESULTS_COUNT is no integer), "status" (a non-200   *)
(* answer), "transport" (requests.post or resp.json raises), "ok" (the     *)
(* mapped documents docs).                                                 *)
(***************************************************************************)

ErrBadCount == <<"invalid literal for int() with base 10: 'many'">>
ErrUnhashable == <<"unhashable type: 'list'">>

SearchReturn(results) == [ raised |-> FALSE, text |-> <<>>, results |-> results ]
SearchRaise(excText) == [ raised |-> TRUE, text |-> excText, results |-> <<>> ]

\* AzureSearchClient.search(query)
Search(o) ==
    IF o.kind = "disabled" THEN SearchReturn(<<>>)
    ELSE IF o.kind = "bad_count" THEN SearchRaise(ErrBadCount)
    ELSE IF o.kind \in {"status", "transport"} THEN SearchReturn(<<>>)
    ELSE SearchReturn(o.docs)

(***************************************************************************)
(* The search levels: AzureSearchClient (the remote index) and             *)
(* VectorDocumentSearch (the local vector index, then keyword ranking).    *)
(* The optional argument k is <<>> when omitted and <<n>> when given.      *)
(* What the world does during one call is a record                         *)
(*   [count, embed, post, raw, index, create, sim, simDocs]:               *)
(* count: SEARCH_RESULTS_COUNT is "ok" (an integer) or "bad"; embed: the   *)
(* embedding call returns a vector ("ok"), an empty one ("empty") or       *)
(* raises ("fails"); post: requests.post raises ("transport"), answers     *)
(* with a non-200 status ("status"), with a body that cannot be read       *)
(* ("unparsable") or with the raw results raw ("ok"); index: the vector    *)
(* store directory is "missing", "corrupt" or "present"; create:           *)
(* FAISS.from_documents "ok" or "fails"; sim: the similarity search        *)
(* "raises" or returns simDocs ("ok").                                     *)
(***************************************************************************)

\* the local documents folder is a list of [content, title]
LocalDoc(content, title) == [content |-> content, title |-> title]

\* AzureSearchClient.__init__: env is [configured, vector, embeddingsOk]
AzureInit(env) ==
    [ enabled |-> env.configured,
      vector_mode |-> env.configured /\ env.vector /\ env.embeddingsOk,
      embeddings |-> env.configured /\ env.vector /\ env.embeddingsOk ]

\* AzureSearchClient._choose_field: the first candidate field that holds a
\* non-blank string
RECURSIVE ChooseField(_, _)
ChooseField(doc, candidates) ==
    IF candidates = <<>> THEN <<>>
    ELSE IF Head(candidates) \in DOMAIN doc /\ Strip(doc[Head(candidates)]) /= <<>>
         THEN doc[Head(candidates)]
         ELSE ChooseField(doc, Tail(candidates))

CONTENT_FIELD_CANDIDATES == <<"content", "content_text", "chunk", "text", "body", "page_content">>
TITLE_FIELD_CANDIDATES == <<"title", "document_title", "name", "heading">>

\* the result built from one raw result
MapRaw(r) ==
    [ content |-> ChooseField(r, CONTENT_FIELD_CANDIDATES),
      title |-> ChooseField(r, TITLE_FIELD_CANDIDATES) ]

\* AzureSearchClient._embed_query: TRUE when it returns a usable vector
EmbedQuery(self, o) == self.embeddings /\ o.embed = "ok"

SearchOutcome(self, raised, text, results) ==
    [ self |-> self, raised |-> raised, text |-> text, results |-> results ]

\* the try block around requests.post
AzurePost(self, o) ==
    IF o.post \in {"transport", "status", "unparsable"}
    THEN SearchOutcome(self, FALSE, <<>>, <<>>)
    ELSE SearchOutcome(self, FALSE, <<>>, [i \in 1..Len(o.raw) |-> MapRaw(o.raw[i])])

\* mutant: a failed embedding is raised to the caller
AzureSearch_EmbedRaises(self, query, k, o) ==
    IF ~self.enabled THEN SearchOutcome(self, FALSE, <<>>, <<>>)
    ELSE IF k = <<>> /\ o.count = "bad" THEN SearchOutcome(self, TRUE, ErrBadCount, <<>>)
    ELSE IF self.vector_mode /\ ~EmbedQuery(self, o)
         THEN SearchOutcome(self, TRUE, <<"embedding">>, <<>>)
         ELSE AzurePost(self, o)

\* AzureSearchClient.search(query, k)
AzureSearch(self, query, k, o) ==
    IF ~self.enabled THEN SearchOutcome(self, FALSE, <<>>, <<>>)
    ELSE IF k = <<>> /\ o.count = "bad" THEN SearchOutcome(self, TRUE, ErrBadCount, <<>>)
    ELSE AzurePost([self EXCEPT !.vector_mode = self.vector_mode /\ EmbedQuery(self, o)], o)

\* What a call of AzureSearchClient.search does on the way: embedding is "ok" or
\* "failed" when _embed_query was called and "none" when it was not; requests
\* is the list of the payloads posted.  Of a payload, vectorQueries says
\* whether it has that key, and search is <<>> without the key "search".
AzureTrace(self, query, k, o) ==
    IF ~self.enabled \/ (k = <<>> /\ o.count = "bad")
    THEN [ embedding |-> "none", requests |-> <<>> ]
    ELSE LET embedding == IF ~self.vector_mode THEN "none"
                          ELSE IF EmbedQuery(self, o) THEN "ok" ELSE "failed"
             vector == embedding = "ok"
         IN  [ embedding |-> embedding,
               requests |-> << [ vectorQueries |-> vector,
                                 search |-> IF vector /\ ~o.hybrid THEN <<>>
                                            ELSE <<query>>,
                                 top |-> k ] >> ]

\* str.split(): the set of the whitespace-separated words of s, from
\* position i on, word being the word read so far
RECURSIVE WordsFrom(_, _, _)
WordsFrom(s, i, word) ==
    IF i > Len(s) THEN (IF word = <<>> THEN {} ELSE {word})
    ELSE IF IsSpace(s[i])
         THEN (IF word = <<>> THEN {} ELSE {word}) \cup WordsFrom(s, i + 1, <<>>)
         ELSE WordsFrom(s, i + 1, Append(word, s[i]))

\* set(s.lower().split())
WordSet(s) == WordsFrom(Lower(s), 1, <<>>)

\* the weight of a match in the title
TitleWeight == 2

\* the score _keyword_search gives a document
KeywordScore(query, doc) ==
    Cardinality(WordSet(query) \cap WordSet(doc.content))
        + Cardinality(WordSet(query) \cap WordSet(doc.title)) * TitleWeight

\* the loop of _keyword_search: the documents that score above 0
RECURSIVE ScoredDocs(_, _)
ScoredDocs(query, documents) ==
    IF documents = <<>> THEN <<>>
    ELSE LET doc == Head(documents)
             score == KeywordScore(query, doc)
         IN  (IF score > 0
              THEN << [content |-> doc.content, title |-> doc.title, score |-> score] >>
              ELSE <<>>) \o ScoredDocs(query, Tail(documents))

\* mutant: an element goes before the elements of equal score
RECURSIVE InsertByScore_BeforeEquals(_, _)
InsertByScore_BeforeEquals(sorted, d) ==
    IF sorted = <<>> THEN <<d>>
    ELSE IF Head(sorted).score > d.score
         THEN <<Head(sorted)>> \o InsertByScore_BeforeEquals(Tail(sorted), d)
         ELSE <<d>> \o sorted

\* one element put into a list sorted by descending score, after its equals
RECURSIVE InsertByScore(_, _)
InsertByScore(sorted, d) ==
    IF sorted = <<>> THEN <<d>>
    ELSE IF Head(sorted).score >= d.score
         THEN <<Head(sorted)>> \o InsertByScore(Tail(sorted), d)
         ELSE <<d>> \o sorted

\* scored_docs.sort(key=score, reverse=True): a stable sort
RECURSIVE SortByScore(_, _)
SortByScore(docs, sorted) ==
    IF docs = <<>> THEN sorted
    ELSE SortByScore(Tail(docs), InsertByScore(sorted, Head(docs)))

\* VectorDocumentSearch._keyword_search(query, k)
KeywordSearch(query, k, documents) ==
    IF documents = <<>> THEN <<>>
    ELSE SliceTo(SortByScore(ScoredDocs(query, documents), <<>>), k)

\* VectorDocumentSearch.__init__
VdsInit(embeddingsOk) ==
    [ use_keyword_search |-> ~embeddingsOk, embeddings |-> embeddingsOk,
      vectorstore |-> FALSE ]

\* VectorDocumentSearch.create_vectorstore: [self, ok]
CreateVectorstore(self, documents, o) ==
    IF self.use_keyword_search THEN [self |-> self, ok |-> TRUE]
    ELSE IF documents = <<>> THEN [self |-> self, ok |-> FALSE]
    ELSE IF o.create = "fails"
         THEN [self |-> [self EXCEPT !.use_keyword_search = TRUE, !.embeddings = FALSE],
               ok |-> TRUE]
         ELSE [self |-> [self EXCEPT !.vectorstore = TRUE], ok |-> TRUE]

\* VectorDocumentSearch.load_vectorstore: [self, ok]
LoadVectorstore(self, documents, o) ==
    IF self.use_keyword_search THEN [self |-> self, ok |-> TRUE]
    ELSE IF o.index \in {"missing", "corrupt"} THEN CreateVectorstore(self, documents, o)
    ELSE [self |-> [self EXCEPT !.vectorstore = TRUE], ok |-> TRUE]

\* the try block of VectorDocumentSearch.search
VdsSearchBody(self, query, k, documents, o) ==
    IF self.use_keyword_search
    THEN SearchOutcome(self, FALSE, <<>>, KeywordSearch(query, k, documents))
    ELSE LET loaded == IF self.vectorstore THEN [self |-> self, ok |-> TRUE]
                       ELSE LoadVectorstore(self, documents, o)
         IN  IF ~loaded.ok \/ ~loaded.self.vectorstore \/ o.sim = "raises"
             THEN SearchOutcome(loaded.self, FALSE, <<>>, KeywordSearch(query, k, documents))
             ELSE SearchOutcome(loaded.self, FALSE, <<>>, o.simDocs)

\* the default of SEARCH_RESULTS_COUNT
DefaultResultsCount == 15

\* VectorDocumentSearch.search(query, k)
VdsSearch(self, query, k, documents, o) ==
    IF k = <<>> /\ o.count = "bad" THEN SearchOutcome(self, TRUE, ErrBadCount, <<>>)
    ELSE VdsSearchBody(self, query, IF k = <<>> THEN DefaultResultsCount ELSE k[1],
                       documents, o)

(***************************************************************************)
(* The chat model: get_azure_llm and O3MiniCompatibleChatOpenAI.  Keyword  *)
(* arguments are a function from names to values; the object built is      *)
(* [class, deployment_name, params], params being the keyword arguments    *)
(* the base class's constructor received.  A call passed on to the base    *)
(* class's invoke is recorded as [params, config, kwargs].                 *)
(***************************************************************************)

O3Mini == <<"o", "3", "-", "m", "i", "n", "i">>
O3 == <<"o", "3">>
O4Mini == <<"o", "4", "-", "m", "i", "n", "i">>
Gpt4oMini == <<"g", "p", "t", "-", "4", "o", "-", "m", "i", "n", "i">>

\* {"o3-mini", "o3", "o4-mini"}
RestrictedModels == { O3Mini, O3, O4Mini }

\* ['temperature', 'top_p', 'frequency_penalty', 'presence_penalty']
UnsupportedParams == { "temperature", "top_p", "frequency_penalty", "presence_penalty" }

\* a filter that lets every parameter through
FilterUnsupported_Nothing(kwargs) == kwargs

\* {k: v for k, v in kwargs.items() if k not in [...]}
FilterUnsupported(kwargs) == [k \in DOMAIN kwargs \ UnsupportedParams |-> kwargs[k]]

\* kwargs.get('deployment_name', '')
DeploymentOf(kwargs) ==
    IF "deployment_name" \in DOMAIN kwargs THEN kwargs["deployment_name"] ELSE <<>>

\* AzureChatOpenAI(**kwargs)
PlainInit(kwargs) ==
    [ class |-> "AzureChatOpenAI", deployment_name |-> DeploymentOf(kwargs),
      params |-> kwargs ]

\* O3MiniCompatibleChatOpenAI.__init__(**kwargs)
CompatInit(kwargs) ==
    [ class |-> "O3MiniCompatibleChatOpenAI", deployment_name |-> DeploymentOf(kwargs),
      params |-> IF Lower(DeploymentOf(kwargs)) \in RestrictedModels
                 THEN FilterUnsupported(kwargs) ELSE kwargs ]

\* os.getenv('AZURE_OPENAI_DEPLOYMENT', 'gpt-4o-mini'): env.deployment is
\* <<"unset">> when the variable is not set
ConfiguredDeployment(env) ==
    IF env.deployment = <<"unset">> THEN Gpt4oMini ELSE env.deployment

\* the base of llm_params
BaseParams(deployment) ==
    [ azure_endpoint |-> <<"endpoint">>, api_key |-> <<"key">>,
      api_version |-> <<"version">>, deployment_name |-> deployment,
      verbose |-> <<"False">> ]

\* get_azure_llm(): env is [deployment, max_completion_tokens], the latter
\* "unset", "ok" (an integer) or "bad"; int() of a bad one raises and the
\* handler re-raises
GetAzureLlm(env) ==
    LET deployment == ConfiguredDeployment(env)
    IN  IF deployment /= <<>> /\ Lower(deployment) \in RestrictedModels
        THEN IF env.max_completion_tokens = "bad" THEN [ class |-> "raised" ]
             ELSE CompatInit(IF env.max_completion_tokens = "ok"
                             THEN BaseParams(deployment)
                                      @@ [model_kwargs |-> <<"max_completion_tokens">>]
                             ELSE BaseParams(deployment))
        ELSE IF env.max_completion_tokens = "bad" THEN [ class |-> "raised" ]
             ELSE PlainInit(BaseParams(deployment)
                                @@ [max_tokens |-> <<"1500">>, temperature |-> <<"0.3">>,
                                    model_kwargs |-> <<>>])

\* invoke(input_data, config, **kwargs): the call passed on to the base class
InvokeCall(self, config, kwargs) ==
    IF self.class = "O3MiniCompatibleChatOpenAI"
           /\ Lower(self.deployment_name) \in RestrictedModels
    THEN [ params |-> self.params, config |-> FilterUnsupported(config),
           kwargs |-> FilterUnsupported(kwargs) ]
    ELSE [ params |-> self.params, config |-> config, kwargs |-> kwargs ]

\* the names of the parameters a call carries
Carried(call) == DOMAIN call.params \cup DOMAIN call.config \cup DOMAIN call.kwargs

(***************************************************************************)
(* ConversationOrchestrator: TVAgent.process_message behind the /api/chat  *)
(* handler.                                                                *)
(***************************************************************************)

\* search_results[:3]
ContextDocs == 3

\* conversation_history[-4:]
HistoryWindow == 4

\* f"{i}" for the small numbers the model formats
Decimal(i) == << CASE i = 1 -> "1" [] i = 2 -> "2" [] i = 3 -> "3" [] OTHER -> "#" >>

\* the parts of _prepare_context, from document i on
RECURSIVE ContextParts(_, _)
ContextParts(docs, i) ==
    IF i > Len(docs) THEN <<>>
    ELSE LET content == Strip(docs[i].content)
         IN  (IF content /= <<>>
              THEN << <<"Document ">> \o Decimal(i) \o <<":", "\n">> \o content \o NL >>
              ELSE <<>>) \o ContextParts(docs, i + 1)

\* TVAgent._prepare_context
PrepareContext(search_results) ==
    IF search_results = <<>> THEN <<>>
    ELSE Join(ContextParts(SliceTo(search_results, ContextDocs), 1), NL)

\* the loop as it would be with one try around it: the first file whose
\* extraction raises ends the reading
RECURSIVE ExtractAll_AbortOnFailure(_, _)
ExtractAll_AbortOnFailure(store, files) ==
    IF files = <<>> THEN <<>>
    ELSE LET content == ProcessFile(store, Head(files))
         IN  IF content.raised THEN <<>>
             ELSE <<"\n--- Content from ">> \o Head(files).original_name
                  \o <<" ---\n">> \o content.text \o NL
                  \o ExtractAll_AbortOnFailure(store, Tail(files))

\* the loop over uploaded_files: a file whose extraction raises is skipped
RECURSIVE ExtractAll(_, _)
ExtractAll(store, files) ==
    IF files = <<>> THEN <<>>
    ELSE LET content == ProcessFile(store, Head(files))
         IN  (IF content.raised THEN <<>>
              ELSE <<"\n--- Content from ">> \o Head(files).original_name
                   \o <<" ---\n">> \o content.text \o NL)
             \o ExtractAll(store, Tail(files))

SystemPrompt == <<"You are a Tv report assistant specialized in HAVAS. ...">>

\* the history turns of the prompt
RECURSIVE HistoryTurns(_)
HistoryTurns(history) ==
    IF history = <<>> THEN <<>>
    ELSE << [role |-> "human", content |-> <<"User: ">> \o Head(history).human],
            [role |-> "system", content |-> <<"Assistant: ">> \o Head(history).ai] >>
         \o HistoryTurns(Tail(history))

\* context_msg
ContextMessage(context, file_content, message) ==
    IF context /= <<>>
    THEN IF file_content /= <<>>
         THEN <<"Information from uploaded files:\n">> \o context
              \o <<"\n\nUser's question: ">> \o message
         ELSE <<"Relevant information from knowledge base:\n">> \o context
              \o <<"\n\nUser's question: ">> \o message
    ELSE <<"User's question: ">> \o message

\* messages, step 4 of process_message
BuildMessages(history, context, file_content, message) ==
    << [role |-> "system", content |-> SystemPrompt] >>
    \o HistoryTurns(LastN(history, HistoryWindow))
    \o << [role |-> "human", content |-> ContextMessage(context, file_content, message)] >>

\* a dict key must be hashable: a session id that is a JSON list is not
IsHashable(sid) == Head(sid) /= "["

NoResult == [ none |-> TRUE ]
NoHttp == [ status |-> 0 ]

InternalServerError == <<"Internal server error">>

\* mutant: the handler of process_message logs and re-raises
ProcessMessageExcept_Reraise(excText, now) == [ pc |-> "raised", result |-> NoResult ]

\* except Exception as e, in process_message: the failure record
ProcessMessageExcept(excText, now) ==
    [ pc |-> "errored",
      result |-> [ error |-> InternalServerError,
                   details |-> excText,
                   timestamp |-> now ] ]

\* a result record whose session statistics were taken before add_message
ResultRecord_BeforeAppend(r, sess, now) ==
    [ response |-> r.response,
      documentsFound |-> Len(r.search_results),
      filesUsed |-> Len(r.uploaded_files),
      hasContext |-> r.context /= <<>>,
      contextSource |-> IF r.file_content /= <<>> THEN "uploaded_files"
                        ELSE "azure_search",
      session_info |-> GetSessionInfo(r.memAtStart, r.session_id),
      timestamp |-> now ]

\* the result record, step 7 of process_message
ResultRecord(r, sess, now) ==
    [ response |-> r.response,
      documentsFound |-> Len(r.search_results),
      filesUsed |-> Len(r.uploaded_files),
      hasContext |-> r.context /= <<>>,
      contextSource |-> IF r.file_content /= <<>> THEN "uploaded_files"
                        ELSE "azure_search",
      session_info |-> GetSessionInfo(sess, r.session_id),
      timestamp |-> now ]

\* chat(): 'message' missing, or empty once stripped
ChatRejects(hasMessage, rawMessage) == ~hasMessage \/ Strip(rawMessage) = <<>>

\* the body of chat()'s 400 answers
ChatRejection(hasMessage) ==
    [ status |-> 400,
      error |-> IF hasMessage THEN <<"Message cannot be empty">>
                ELSE <<"Message required">> ]

\* chat(), after process_message returned result (or raised)
ChatResponse(pc, result, now) ==
    IF pc = "raised" \/ "error" \in DOMAIN result
    THEN [ status |-> 500, error |-> InternalServerError, timestamp |-> now ]
    ELSE [ status |-> 200, body |-> result ]

(***************************************************************************)
(* The inputs of the context budgeter's specification                      *)
(***************************************************************************)

\* at most this many snippets in one call
MaxSnippets == 2

\* content lengths around the budgets below, and contents that strip() changes
SnippetContents ==
    { <<>>, <<" ">>, <<" ", "a", " ">>, Rep("a", 4), Rep("a", 98), Rep("a", 103),
      Rep("a", 120) }

SnippetTitles == { <<>>, <<"T">> }

Snippets == [content : SnippetContents, title : SnippetTitles]

\* budgets below, at and above the threshold of 100, and 3000, the default
MaxLengths == { 0, 3, 10, 100, 101, 104, 110, 3000 }

ResultLists == UNION { [1..n -> Snippets] : n \in 0..MaxSnippets }

\* Session ids; one is the other followed by an underscore and a name
SidA == <<"a">>
SidAB == <<"a", "_", "b">>
SessionIds == { SidA, SidAB }

\* the clock stops here: at most this many add_message calls in a run
MaxClock == 12

MemHumans == { <<"h", "i">> }
MemAis == { <<"o", "k">> }

\* the request threads of the concurrent specification
Threads == { 1, 2 }

\* a thread that is not inside add_message
NoCall == [ pc |-> "idle", human |-> <<>>, ai |-> <<>>, message_entry |-> [none |-> TRUE],
            kept |-> <<>> ]

ConcIdle == threads = [t \in Threads |-> NoCall]

MemIdle ==
    /\ sessions = <<>>
    /\ clock = 1
    /\ appended = [sid \in SessionIds |-> <<>>]

\* what the provider may do, for the normaliser's specification
ProviderTexts ==
    { <<>>, <<" ">>, <<"\n", " ">>, <<"o", "k">>, <<" ", "o", "k", " ">>,
      <<"\n", "o", "k">>, <<"o", " ", "k", "\n">>, <<"a">>, <<" ", "a">> }

ExcTimeout == <<"T", "i", "m", "e", "o", "u", "t">>
ExcUnsupported == <<"U", "n", "s", "u", "p", "p", "o", "r", "t", "e", "d", " ", "p", "a", "r", "a", "m", "e", "t", "e", "r", ":", " ", "'", "t", "o", "p", "_", "p", "'">>
ExcTemperature == <<"4", "0", "0", " ", "T", "e", "m", "p", "e", "r", "a", "t", "u", "r", "e">>
ExcTexts == { ExcTimeout, ExcUnsupported, ExcTemperature }

Returned(shape, isStr, text) ==
    [raises |-> FALSE, excText |-> <<>>, shape |-> shape, isStr |-> isStr, text |-> text]

ProviderOutcomes ==
    { Returned(shape, TRUE, text) : shape \in {"str", "object", "dict"},
                                    text \in ProviderTexts }
    \cup { Returned(shape, FALSE, <<>>) :
               shape \in {"none", "object", "dict", "dict_other", "other"} }
    \cup { [raises |-> FALSE, excText |-> e, shape |-> "object_raising",
            isStr |-> FALSE, text |-> <<>>] : e \in ExcTexts }
    \cup { [raises |-> TRUE, excText |-> e, shape |-> "none",
            isStr |-> FALSE, text |-> <<>>] : e \in ExcTexts }

NoOutcome == Returned("unset", FALSE, <<>>)
NoReturn == [raised |-> FALSE, text |-> <<"unset">>]

NormIdle ==
    /\ normAgent = "none"
    /\ normOutcome = NoOutcome
    /\ normOut = NoReturn

\* the session id of a chat request may be any JSON value: this one is a list
SidList == <<"[", "]">>
ChatSessionIds == { SidA, SidList }

\* at most this many exchanges are recorded in a run of the pipeline
MaxTurns == 2

ChatMessages == { <<>>, <<" ">>, <<" ", "h", "i", "\n">> }

Doc(content) == [content |-> content, title |-> <<>>]

SearchOutcomes ==
    { [kind |-> k, docs |-> <<>>] : k \in {"disabled", "bad_count", "status", "transport"} }
    \cup { [kind |-> "ok", docs |-> d] :
               d \in { <<>>, <<Doc(<<" ">>), Doc(<<" ", "x">>)>> } }

\* the messages of direct calls of process_message
DirectMessages == { <<" ">>, <<"h", "i">> }

\* what the provider may do in a run of the pipeline
PipelineOutcomes ==
    { Returned("str", TRUE, <<" ", "o", "k", " ">>),
      Returned("object", TRUE, <<>>),
      [raises |-> TRUE, excText |-> ExcTimeout, shape |-> "none",
       isStr |-> FALSE, text |-> <<>>],
      [raises |-> TRUE, excText |-> ExcTemperature, shape |-> "none",
       isStr |-> FALSE, text |-> <<>>] }

\* uploads: a good pdf, one without text, one too large, a type that is not
\* allowed, a name that is only an extension, and no file at all
UploadedFile(filename, size, body) == [filename |-> filename, size |-> size, body |-> body]
UploadFiles ==
    { UploadedFile(<<"a", ".", "p", "d", "f">>, 1, <<"d">>),
      UploadedFile(<<"a", ".", "p", "d", "f">>, 1, <<>>),
      UploadedFile(<<"a", ".", "p", "d", "f">>, MaxFileSize + 1, <<"d">>),
      UploadedFile(<<"b", ".", "t", "x", "t">>, 1, <<"d">>),
      UploadedFile(<<".", "p", "d", "f">>, 1, <<"d">>),
      UploadedFile(<<>>, 1, <<>>) }

NoRequest ==
    [ pc |-> "idle",
      hasMessage |-> FALSE,
      rawMessage |-> <<>>,
      message |-> <<>>,
      session_id |-> <<>>,
      uploaded_files |-> <<>>,
      file_content |-> <<>>,
      search_results |-> <<>>,
      context |-> <<>>,
      conversation_history |-> <<>>,
      messages |-> <<>>,
      response |-> <<>>,
      result |-> NoResult,
      http |-> NoHttp,
      exc |-> <<>>,
      providerFailed |-> FALSE,
      listings |-> 0,
      searches |-> 0,
      invokes |-> 0,
      memAtStart |-> <<>>,
      direct |-> FALSE ]

\* no search call yet
NoSearchOp == [ op |-> "none" ]

\* no get_session_info call since the last write
NoMemOp == [ op |-> "none" ]

\* no chat model built yet
NoLlm == [ class |-> "none" ]

\* the search clients of an unconfigured deployment, and no chat model
ToolsIdle ==
    /\ azure = AzureInit([configured |-> FALSE, vector |-> FALSE, embeddingsOk |-> FALSE])
    /\ vds = VdsInit(FALSE)
    /\ sop = NoSearchOp
    /\ mop = NoMemOp
    /\ llm = NoLlm
    /\ llmCalls = <<>>
    /\ cmm = CmmIdle

\* no operation on the file store yet
NoFileOp == [ op |-> "none" ]

PipeIdle ==
    /\ uploads = <<>>
    /\ outside = <<>>
    /\ fop = NoFileOp
    /\ req = NoRequest
    /\ ConcIdle
    /\ ToolsIdle

CtxIdle ==
    /\ ctxImpl = "none"
    /\ ctxResults = <<>>
    /\ ctxMax = 0
    /\ ctxOut = <<>>

InitCtx ==
    /\ ctxImpl = "none"
    /\ ctxResults \in ResultLists
    /\ ctxMax \in MaxLengths
    /\ ctxOut = <<>>
    /\ MemIdle
    /\ NormIdle
    /\ PipeIdle

AzureGetContextCall ==
    /\ ctxImpl = "none"
    /\ ctxImpl' = "azure"
    /\ ctxOut' = AzureGetContext(ctxResults, ctxMax)
    /\ UNCHANGED <<ctxResults, ctxMax>>
    /\ UNCHANGED <<memVars, normVars, pipeVars, concVars, toolVars>>

VectorGetContextCall ==
    /\ ctxImpl = "none"
    /\ ctxImpl' = "vector"
    /\ ctxOut' = VectorGetContext(ctxResults, ctxMax)
    /\ UNCHANGED <<ctxResults, ctxMax>>
    /\ UNCHANGED <<memVars, normVars, pipeVars, concVars, toolVars>>

NextCtx == AzureGetContextCall \/ VectorGetContextCall

SpecCtx == InitCtx /\ [][NextCtx]_vars

(***************************************************************************)
(* Properties of the context budgeter (checked under SpecCtx)              *)
(***************************************************************************)

CtxCalled == ctxImpl /= "none"

\* the snippets get_context formats: the azure client skips empty contents
CtxFormatted ==
    IF ctxImpl = "azure"
    THEN SelectSeq(ctxResults, LAMBDA r : Strip(r.content) /= <<>>)
    ELSE ctxResults

\* the formatted chunk of the first snippet
CtxFirstChunk == FormatChunk(CtxFormatted[1].title, Strip(CtxFormatted[1].content))

CtxFirstTooLong == CtxCalled /\ CtxFormatted /= <<>> /\ Len(CtxFirstChunk) > ctxMax

EndsWith(s, p) == Len(p) <= Len(s) /\ SubSeq(s, Len(s) - Len(p) + 1, Len(s)) = p

\* C3: the string get_context returns is never longer than max_length,
\* separators between chunks included.
C3_ContextWithinMaxLength == CtxCalled => Len(ctxOut) <= ctxMax

\* a call whose chunks fill the budget exactly, so that the separator overflows
C3_Witness == CtxCalled /\ Len(ctxOut) = ctxMax + 1

\* C4 as claimed: whenever the first chunk alone is longer than max_length, the
\* result is a prefix of it cut short, ending in "...", of length <= max_length.
C4_FirstChunkTruncatedAlways ==
    CtxFirstTooLong =>
        /\ EndsWith(ctxOut, Ellipsis)
        /\ Len(ctxOut) <= ctxMax
        /\ StartsWith(CtxFirstChunk, SubSeq(ctxOut, 1, Len(ctxOut) - 3))

\* C4 (amended): when the first chunk alone is longer than max_length, then for
\* max_length > 100 the result is the first max_length - 3 characters of the
\* chunk followed by "...", of length exactly max_length; for max_length <= 100
\* the result is the empty string.
C4_FirstChunkTruncatedAboveThreshold ==
    CtxFirstTooLong =>
        IF ctxMax > 100
        THEN /\ EndsWith(ctxOut, Ellipsis)
             /\ Len(ctxOut) = ctxMax
             /\ StartsWith(CtxFirstChunk, SubSeq(ctxOut, 1, ctxMax - 3))
        ELSE ctxOut = <<>>

\* a first chunk longer than a budget above the threshold has been truncated
C4_Witness == CtxFirstTooLong /\ ctxMax > 100 /\ EndsWith(ctxOut, Ellipsis)

(***************************************************************************)
(* The memory manager's specification: its operations called one after     *)
(* another, each running to completion.                                    *)
(***************************************************************************)

MemAddMessage(sid, human, ai) ==
    /\ clock <= MaxClock
    /\ sessions' = AddMessage(sessions, sid, human, ai, clock)
    /\ appended' = [appended EXCEPT ![sid] = Append(@, MessageEntry(human, ai, clock))]
    /\ clock' = clock + 1
    /\ mop' = NoMemOp
    /\ UNCHANGED <<azure, vds, sop, llm, llmCalls, cmm>>
    /\ UNCHANGED <<ctxVars, concVars, normVars, pipeVars>>

MemClearSession(sid) ==
    /\ sessions' = ClearSession(sessions, sid)
    /\ appended' = [appended EXCEPT ![sid] = <<>>]
    /\ mop' = NoMemOp
    /\ UNCHANGED clock
    /\ UNCHANGED <<azure, vds, sop, llm, llmCalls, cmm>>
    /\ UNCHANGED <<ctxVars, concVars, normVars, pipeVars>>

\* TVAgent.get_conversation_stats(sid): nth counts the calls made since the
\* last write, up to 2
MemGetSessionInfo(sid) ==
    \E call \in { InfoCall(sessions, sid) } :
        /\ sessions' = call.sessions
        /\ mop' = [ op |-> "info", session_id |-> sid, out |-> call.out,
                    nth |-> IF mop.op = "info" THEN 2 ELSE 1 ]
        /\ UNCHANGED <<clock, appended>>
        /\ UNCHANGED <<azure, vds, sop, llm, llmCalls, cmm>>
        /\ UNCHANGED <<ctxVars, concVars, normVars, pipeVars>>

InitMem == CtxIdle /\ MemIdle /\ NormIdle /\ PipeIdle

NextMem ==
    \/ \E sid \in SessionIds, human \in MemHumans, ai \in MemAis :
           MemAddMessage(sid, human, ai)
    \/ \E sid \in SessionIds : MemClearSession(sid)
    \/ \E sid \in SessionIds : MemGetSessionInfo(sid)

SpecMem == InitMem /\ [][NextMem]_vars

\* C1: once more than 10 exchanges were appended to a session since it was last
\* cleared, get_conversation_history returns exactly the 10 most recently
\* appended ones, oldest first.
C1_HistoryIsLastTenAppended ==
    \A sid \in SessionIds :
        Len(appended[sid]) > 10 =>
            LET history == GetConversationHistory(sessions, sid)
                n == Len(appended[sid])
            IN  /\ Len(history) = 10
                /\ \A i \in 1..10 : history[i] = appended[sid][n - 10 + i]

\* a session that received an eleventh exchange
C1_Witness ==
    \E sid \in SessionIds :
        /\ Len(appended[sid]) > 10
        /\ Len(GetConversationHistory(sessions, sid)) = 10

(***************************************************************************)
(* The response normaliser's specification: one call of _generate_response *)
(* of either agent, for each thing the provider may do.                    *)
(***************************************************************************)

InitNorm ==
    /\ CtxIdle
    /\ MemIdle
    /\ normAgent = "none"
    /\ normOutcome \in ProviderOutcomes
    /\ normOut = NoReturn
    /\ PipeIdle

TVGenerateResponseCall ==
    /\ normAgent = "none"
    /\ normAgent' = "tv"
    /\ normOut' = TVGenerateResponse(normOutcome)
    /\ UNCHANGED <<normOutcome, ctxVars, toolVars, concVars, memVars, pipeVars>>

HRGenerateResponseCall ==
    /\ normAgent = "none"
    /\ normAgent' = "hr"
    /\ normOut' = HRGenerateResponse(normOutcome)
    /\ UNCHANGED <<normOutcome, ctxVars, toolVars, concVars, memVars, pipeVars>>

NextNorm == TVGenerateResponseCall \/ HRGenerateResponseCall

SpecNorm == InitNorm /\ [][NextNorm]_vars

NormCalled == normAgent /= "none"

\* the sentences of the agent under test
NormApologyNone == IF normAgent = "tv" THEN TVApologyNone ELSE HRApologyNone
NormFallback == IF normAgent = "tv" THEN TVFallback ELSE HRFallback
NormApologyFormat == IF normAgent = "tv" THEN TVApologyFormat ELSE HRApologyFormat
NormExceptionSentences ==
    IF normAgent = "tv" THEN {TVConfigProblem, TVTechnicalProblem}
    ELSE {HRTechnicalProblem}

\* C5: whatever the provider returns or raises, and when inspecting the result
\* raises, _generate_response returns a non-empty string and does not raise.
C5_NormalizeTotal ==
    NormCalled => /\ ~normOut.raised
                  /\ Len(normOut.text) > 0

\* a call whose provider raised, and one whose result could not be inspected
C5_Witness ==
    /\ NormCalled
    /\ normOutcome.raises \/ normOutcome.shape = "object_raising"
    /\ ~normOut.raised

\* C6: None gives sentence A; a string gives its trimmed text, or sentence B
\* when that is empty; an object or mapping with content gives the trimmed
\* content when it is a non-empty string, else B; any other shape gives
\* sentence C, which differs from A, from B and from every sentence the
\* exception handler returns.
C6_ResolutionOrder ==
    (NormCalled /\ ~normOutcome.raises /\ normOutcome.shape /= "object_raising") =>
        LET o == normOutcome
            trimmed == Strip(o.text)
        IN  /\ ~normOut.raised
            /\ o.shape = "none" => normOut.text = NormApologyNone
            /\ o.shape = "str" =>
                   normOut.text = IF trimmed /= <<>> THEN trimmed ELSE NormFallback
            /\ o.shape \in {"object", "dict"} =>
                   normOut.text = IF o.isStr /\ trimmed /= <<>> THEN trimmed
                                  ELSE NormFallback
            /\ o.shape \in {"dict_other", "other"} =>
                   /\ normOut.text = NormApologyFormat
                   /\ normOut.text \notin
                          {NormApologyNone, NormFallback} \cup NormExceptionSentences

\* an off-shape result was normalised, and so was a padded content
C6_Witness ==
    /\ NormCalled
    /\ ~normOutcome.raises
    /\ \/ normOutcome.shape = "other"
       \/ normOutcome.shape = "object" /\ normOutcome.text = <<" ", "o", "k", " ">>

(***************************************************************************)
(* The pipeline's specification: chat requests and uploads served one      *)
(* after another, each request running process_message stage by stage.     *)
(***************************************************************************)

Init == CtxIdle /\ MemIdle /\ NormIdle /\ PipeIdle

RequestOver ==
    \/ req.pc \in {"idle", "rejected", "responded", "uploaded"}
    \/ req.direct /\ req.pc \in {"done", "errored", "raised"}

\* the exception handler of process_message took over
Fail(excText) ==
    LET handled == ProcessMessageExcept(excText, clock)
    IN  [req EXCEPT !.pc = handled.pc, !.result = handled.result, !.exc = excText]

\* chat(), up to the call of process_message
ChatReceive(hasMessage, rawMessage, sid) ==
    /\ RequestOver
    /\ clock <= MaxTurns
    /\ req' = IF ChatRejects(hasMessage, rawMessage)
              THEN [NoRequest EXCEPT !.pc = "rejected",
                                     !.hasMessage = hasMessage,
                                     !.rawMessage = rawMessage,
                                     !.session_id = sid,
                                     !.http = ChatRejection(hasMessage),
                                     !.memAtStart = sessions]
              ELSE [NoRequest EXCEPT !.pc = "resolving",
                                     !.hasMessage = hasMessage,
                                     !.rawMessage = rawMessage,
                                     !.message = Strip(rawMessage),
                                     !.session_id = sid,
                                     !.memAtStart = sessions]
    /\ UNCHANGED <<ctxVars, toolVars, concVars, memVars, normVars, uploads, outside, fop>>

\* process_message called by a caller other than chat(), as the test script
\* calls it: the message goes to the pipeline as it was given
DirectCall(message, sid) ==
    /\ RequestOver
    /\ clock <= MaxTurns
    /\ req' = [NoRequest EXCEPT !.pc = "resolving",
                                !.hasMessage = TRUE,
                                !.rawMessage = message,
                                !.message = message,
                                !.session_id = sid,
                                !.memAtStart = sessions,
                                !.direct = TRUE]
    /\ UNCHANGED <<ctxVars, toolVars, concVars, memVars, normVars, uploads, outside, fop>>

\* step 2 of process_message, with the files listed and read: found is what
\* document_search.search does when it is called
ResolveWith(uploaded_files, file_content, found) ==
    IF file_content /= <<>>
    THEN [req EXCEPT !.pc = "building",
                     !.uploaded_files = uploaded_files,
                     !.file_content = file_content,
                     !.context = file_content,
                     !.listings = @ + 1]
    ELSE IF found.raised
    THEN [Fail(found.text) EXCEPT !.uploaded_files = uploaded_files,
                                  !.listings = @ + 1,
                                  !.searches = @ + 1]
    ELSE [req EXCEPT !.pc = "building",
                     !.uploaded_files = uploaded_files,
                     !.search_results = found.results,
                     !.context = PrepareContext(found.results),
                     !.listings = @ + 1,
                     !.searches = @ + 1]

\* steps 1 and 2 of process_message: the session's files, else the search
ResolveContext(listing, listingFails, searchOutcome) ==
    /\ req.pc = "resolving"
    /\ LET uploaded_files == GetSessionFiles(uploads, listing, req.session_id, listingFails)
           file_content == ExtractAll(uploads, uploaded_files)
       IN  req' = ResolveWith(uploaded_files, file_content, Search(searchOutcome))
    /\ UNCHANGED <<ctxVars, toolVars, concVars, memVars, normVars, uploads, outside, fop>>

\* steps 3 and 4: the history and the prompt
BuildPrompt ==
    /\ req.pc = "building"
    /\ req' = IF ~IsHashable(req.session_id)
              THEN Fail(ErrUnhashable)
              ELSE LET history == GetConversationHistory(sessions, req.session_id)
                   IN  [req EXCEPT !.pc = "generating",
                                   !.conversation_history = history,
                                   !.messages = BuildMessages(history, req.context,
                                                    req.file_content, req.message)]
    /\ UNCHANGED <<ctxVars, toolVars, concVars, memVars, normVars, uploads, outside, fop>>

\* a _generate_response that calls the provider again after a failure
InvokeCalls_RetryOnFailure(o) == IF o.raises THEN 2 ELSE 1

\* the calls of self.llm.invoke in one _generate_response: the one of the
\* try block, whatever it does
InvokeCalls(o) == 1

\* step 5: _generate_response
Generate(outcome) ==
    /\ req.pc = "generating"
    /\ LET r == TVGenerateResponse(outcome)
       IN  req' = IF r.raised
                  THEN [Fail(r.text) EXCEPT !.invokes = @ + InvokeCalls(outcome),
                                            !.providerFailed = outcome.raises]
                  ELSE [req EXCEPT !.pc = "recording",
                                   !.response = r.text,
                                   !.invokes = @ + InvokeCalls(outcome),
                                   !.providerFailed = outcome.raises]
    /\ UNCHANGED <<ctxVars, toolVars, concVars, memVars, normVars, uploads, outside, fop>>

\* steps 6 and 7: add_message, then the result record
Record ==
    /\ req.pc = "recording"
    /\ IF ~IsHashable(req.session_id)
       THEN /\ req' = Fail(ErrUnhashable)
            /\ UNCHANGED memVars
       ELSE /\ sessions' = AddMessage(sessions, req.session_id, req.message,
                                      req.response, clock)
            /\ appended' = [appended EXCEPT ![req.session_id] =
                                Append(@, MessageEntry(req.message, req.response, clock))]
            /\ clock' = clock + 1
            /\ req' = [req EXCEPT !.pc = "done",
                                  !.result = ResultRecord(req, sessions', clock')]
    /\ UNCHANGED <<ctxVars, toolVars, concVars, normVars, uploads, outside, fop>>

\* chat(), after process_message
ChatRespond ==
    /\ ~req.direct
    /\ req.pc \in {"done", "errored", "raised"}
    /\ req' = [req EXCEPT !.pc = "responded",
                          !.http = ChatResponse(req.pc, req.result, clock)]
    /\ UNCHANGED <<ctxVars, toolVars, concVars, memVars, normVars, uploads, outside, fop>>

\* TVAgent.upload_file
UploadFile(file, sid, saveFails) ==
    /\ RequestOver
    /\ LET saved == SaveFile(uploads, outside, file, sid, saveFails, clock)
       IN  /\ uploads' = saved.store
           /\ outside' = saved.outside
           /\ req' = [NoRequest EXCEPT !.pc = "uploaded",
                                       !.session_id = sid,
                                       !.result = UploadResult(saved),
                                       !.exc = IF saved.raised THEN saved.text ELSE <<>>,
                                       !.memAtStart = sessions]
    /\ UNCHANGED <<ctxVars, toolVars, concVars, memVars, normVars, fop>>

Next ==
    \/ \E hasMessage \in BOOLEAN, rawMessage \in ChatMessages, sid \in ChatSessionIds :
           /\ hasMessage \/ rawMessage = <<>>
           /\ ChatReceive(hasMessage, rawMessage, sid)
    \/ \E message \in DirectMessages : DirectCall(message, SidA)
    \/ \E listing \in Listings(uploads), listingFails \in BOOLEAN,
          searchOutcome \in SearchOutcomes :
           ResolveContext(listing, listingFails, searchOutcome)
    \/ BuildPrompt
    \/ \E outcome \in PipelineOutcomes : Generate(outcome)
    \/ Record
    \/ ChatRespond
    \/ \E file \in UploadFiles, saveFails \in BOOLEAN :
           UploadFile(file, SidA, saveFails)

Spec == Init /\ [][Next]_vars

(***************************************************************************)
(* Properties of the pipeline (checked under Spec)                         *)
(***************************************************************************)

InFlight == req.pc \in {"resolving", "building", "generating", "recording"}

\* a step of process_message
ProcessMessageStep ==
    \/ \E listing \in Listings(uploads), listingFails \in BOOLEAN,
          searchOutcome \in SearchOutcomes :
           ResolveContext(listing, listingFails, searchOutcome)
    \/ BuildPrompt
    \/ \E outcome \in PipelineOutcomes : Generate(outcome)
    \/ Record

\* process_message returned a result record
ReturnedResult == req.pc \in {"done", "responded"} /\ "response" \in DOMAIN req.result

\* process_message returned a failure record
ReturnedFailure == req.pc \in {"errored", "responded"} /\ "error" \in DOMAIN req.result

\* the last exchange of the request's session
LastExchange == sessions[req.session_id][Len(sessions[req.session_id])]

\* C7 as claimed: when the provider call fails, the pipeline goes to Errored:
\* it does not pass through Recording, appends nothing to the memory and
\* returns no success result.
C7_ProviderFailureGoesToErrored ==
    req.providerFailed =>
        /\ req.pc \notin {"recording", "done"}
        /\ ~ReturnedResult
        /\ sessions = req.memAtStart

\* C7 (amended): when the provider call fails, _generate_response catches the
\* exception and returns one of its fixed apology sentences; the pipeline does
\* not go to Errored: it passes through Recording, which appends the exchange
\* (message, apology), and returns a success result whose response is the
\* apology.
C7_ProviderFailureIsAnsweredWithApology ==
    req.providerFailed =>
        /\ req.pc \in {"recording", "done", "responded"}
        /\ req.response \in {TVConfigProblem, TVTechnicalProblem}
        /\ req.pc \in {"done", "responded"} =>
               /\ ReturnedResult
               /\ "error" \notin DOMAIN req.result
               /\ req.result.response = req.response
               /\ LastExchange.human = req.message
               /\ LastExchange.ai = req.response
        /\ req.pc = "responded" => req.http.status = 200

\* a request whose provider call failed has returned
C7_Witness == req.providerFailed /\ req.pc = "done"

\* C8: whatever fails (listing, extraction, search, provider, memory),
\* process_message never raises: it runs on to a record holding 'response' or
\* to a record holding 'error'.
C8_ProcessMessageAlwaysReturnsRecord ==
    /\ req.pc /= "raised"
    /\ InFlight => ENABLED ProcessMessageStep
    /\ req.pc = "done" =>
           "response" \in DOMAIN req.result /\ "error" \notin DOMAIN req.result
    /\ req.pc = "errored" =>
           "error" \in DOMAIN req.result /\ "response" \notin DOMAIN req.result

\* the memory raised (an unhashable session id) and a failure record came back
C8_Witness ==
    /\ req.pc = "errored"
    /\ req.exc = ErrUnhashable
    /\ "error" \in DOMAIN req.result

\* the texts a failure record hands to the caller
RecordTexts(record) == { record[f] : f \in DOMAIN record \cap {"error", "details", "message"} }

\* C9: no failure record handed to the caller, by process_message or by
\* upload_file, contains the text of the exception that was caught.
C9_FailureRecordsCarryNoExceptionText ==
    /\ ReturnedFailure => req.exc \notin RecordTexts(req.result)
    /\ (req.pc = "uploaded" /\ ~req.result.success /\ req.exc /= <<>>) =>
           req.exc \notin RecordTexts(req.result)

\* a failure record of each kind was returned
C9_Witness ==
    \/ ReturnedFailure /\ req.exc = ErrUnhashable
    \/ req.pc = "uploaded" /\ ~req.result.success /\ req.exc = ErrIndex

\* C10: process_message with a message that is missing, empty or only
\* whitespace is rejected with a validation error and runs no pipeline: no file
\* listing, no search, no provider call, and the memory is left as it was.
C10_EmptyMessageIsRejected ==
    (req.pc \notin {"idle", "uploaded"}
        /\ (~req.hasMessage \/ Strip(req.rawMessage) = <<>>)) =>
        /\ req.pc = "rejected"
        /\ req.http.status = 400
        /\ req.listings = 0
        /\ req.searches = 0
        /\ req.invokes = 0
        /\ sessions = req.memAtStart

\* process_message was called with a whitespace-only message and returned a
\* result, having called the provider and appended to the memory
C10_Witness ==
    /\ req.direct
    /\ req.rawMessage = <<" ">>
    /\ req.pc = "done"
    /\ req.invokes = 1
    /\ sessions /= req.memAtStart

(***************************************************************************)
(* Two concurrent requests.  The Flask development server serves each      *)
(* request on its own thread, and SimpleMemoryManager takes no lock: two   *)
(* process_message calls for one session run the statements of             *)
(* add_message interleaved.  Earlier requests of the session, served one   *)
(* after another, have left up to MaxPrior exchanges.                      *)
(***************************************************************************)

\* at most this many exchanges are in the session before the two requests
MaxPrior == 10

\* the session both requests are for
ConcSid == SidA

\* the message of each thread's request
ConcHuman(t) == IF t = 1 THEN <<"a">> ELSE <<"b">>

ConcAis == { <<"o", "k">>, TVTechnicalProblem }

AllIdle == \A t \in Threads : threads[t].pc = "idle"

At(t, pc) == threads[t].pc = pc

Goto(t, pc) == [threads EXCEPT ![t].pc = pc]

\* an earlier request of the session, served alone
ConcPrior ==
    /\ AllIdle
    /\ clock <= MaxPrior
    /\ sessions' = AddMessage(sessions, ConcSid, <<"h", "i">>, <<"o", "k">>, clock)
    /\ appended' = [appended EXCEPT ![ConcSid] =
                        Append(@, MessageEntry(<<"h", "i">>, <<"o", "k">>, clock))]
    /\ clock' = clock + 1
    /\ UNCHANGED <<ctxVars, toolVars, normVars, pipeVars, concVars>>

\* self.memory_manager.add_message(session_id, message, response)
ConcCall(t, ai) ==
    /\ At(t, "idle")
    /\ threads' = [threads EXCEPT ![t] =
                       [NoCall EXCEPT !.pc = "check", !.human = ConcHuman(t), !.ai = ai]]
    /\ UNCHANGED <<ctxVars, toolVars, memVars, normVars, pipeVars>>

\* if session_id not in self.sessions:
ConcCheck(t) ==
    /\ At(t, "check")
    /\ threads' = Goto(t, IF ConcSid \notin DOMAIN sessions THEN "create" ELSE "entry")
    /\ UNCHANGED <<ctxVars, toolVars, memVars, normVars, pipeVars>>

\* self.sessions[session_id] = []
ConcCreate(t) ==
    /\ At(t, "create")
    /\ sessions' = [k \in DOMAIN sessions \cup {ConcSid} |->
                        IF k = ConcSid THEN <<>> ELSE sessions[k]]
    /\ threads' = Goto(t, "entry")
    /\ UNCHANGED <<clock, appended, ctxVars, toolVars, normVars, pipeVars>>

\* message_entry = {'human': ..., 'ai': ..., 'timestamp': datetime.now().isoformat()}
ConcEntry(t) ==
    /\ At(t, "entry")
    /\ threads' = [threads EXCEPT
                       ![t].pc = "append",
                       ![t].message_entry = MessageEntry(threads[t].human, threads[t].ai, clock)]
    /\ clock' = clock + 1
    /\ UNCHANGED <<sessions, appended, ctxVars, toolVars, normVars, pipeVars>>

\* self.sessions[session_id].append(message_entry)
ConcAppend(t) ==
    /\ At(t, "append")
    /\ sessions' = AppendEntry(sessions, ConcSid, threads[t].message_entry)
    /\ appended' = [appended EXCEPT ![ConcSid] = Append(@, threads[t].message_entry)]
    /\ threads' = Goto(t, "len")
    /\ UNCHANGED <<clock, ctxVars, toolVars, normVars, pipeVars>>

\* if len(self.sessions[session_id]) > 10:
ConcLen(t) ==
    /\ At(t, "len")
    /\ threads' = Goto(t, IF Len(sessions[ConcSid]) > HistoryCap THEN "slice" ELSE "returned")
    /\ UNCHANGED <<ctxVars, toolVars, memVars, normVars, pipeVars>>

\* self.sessions[session_id][-10:], the right-hand side of the assignment
ConcSlice(t) ==
    /\ At(t, "slice")
    /\ threads' = [threads EXCEPT ![t].pc = "store",
                                  ![t].kept = LastN(sessions[ConcSid], HistoryCap)]
    /\ UNCHANGED <<ctxVars, toolVars, memVars, normVars, pipeVars>>

\* self.sessions[session_id] = <the slice>
ConcStore(t) ==
    /\ At(t, "store")
    /\ sessions' = [sessions EXCEPT ![ConcSid] = threads[t].kept]
    /\ threads' = Goto(t, "returned")
    /\ UNCHANGED <<clock, appended, ctxVars, toolVars, normVars, pipeVars>>

InitConc == CtxIdle /\ MemIdle /\ NormIdle /\ PipeIdle

NextConc ==
    \/ ConcPrior
    \/ \E t \in Threads, ai \in ConcAis : ConcCall(t, ai)
    \/ \E t \in Threads : ConcCheck(t)
    \/ \E t \in Threads : ConcCreate(t)
    \/ \E t \in Threads : ConcEntry(t)
    \/ \E t \in Threads : ConcAppend(t)
    \/ \E t \in Threads : ConcLen(t)
    \/ \E t \in Threads : ConcSlice(t)
    \/ \E t \in Threads : ConcStore(t)

SpecConc == InitConc /\ [][NextConc]_vars

\* both add_message calls have returned
BothReturned == \A t \in Threads : At(t, "returned")

\* how many times an exchange is in a list
Occurrences(list, entry) == Cardinality({ i \in DOMAIN list : list[i] = entry })

Min(a, b) == IF a <= b THEN a ELSE b

\* C2: when two process_message calls for one session run concurrently and both
\* succeed, the session's list afterwards holds each of the two exchanges
\* exactly once, and its length is the number of exchanges appended, capped at
\* 10.
C2_ConcurrentAppendsKeepBothExchanges ==
    BothReturned =>
        /\ ConcSid \in DOMAIN sessions
        /\ \A t \in Threads :
               Occurrences(sessions[ConcSid], threads[t].message_entry) = 1
        /\ Len(sessions[ConcSid]) = Min(HistoryCap, Len(appended[ConcSid]))

\* both calls have run to their end on the same session
C2_Witness ==
    /\ BothReturned
    /\ ConcSid \in DOMAIN sessions
    /\ Len(appended[ConcSid]) >= 2

(***************************************************************************)
(* The file store's specification: the operations of FileProcessor called  *)
(* one after another on the upload folder, with time passing in between.   *)
(***************************************************************************)

\* session ids of the upload form: two plain ones, one that climbs out of the
\* folder, an absolute one, and one that names a subdirectory
SidUp == <<".", ".", "/", "x">>
SidAbs == <<"/", "t">>
SidSub == <<"b", "/", "c">>
FsSessionIds == { SidA, SidAB, SidUp, SidAbs, SidSub }

\* the sessions whose files are listed and cleared
FsListedIds == { SidA, SidAB, SidUp }

\* what os.remove may refuse: nothing when the listing itself fails
Unremovable(store, listingFails) == IF listingFails THEN { {} } ELSE SUBSET DOMAIN store

\* uploads: a good pdf, a name that secure_filename rewrites, a file too
\* large, a type that is not allowed, a name that is only an extension, and
\* no file at all
FsFiles ==
    { UploadedFile(<<"a", ".", "p", "d", "f">>, 1, <<"d">>),
      UploadedFile(<<".", ".", "/", "c", ".", "P", "D", "F">>, MaxFileSize, <<"d">>),
      UploadedFile(<<"a", ".", "p", "d", "f">>, MaxFileSize + 1, <<"d">>),
      UploadedFile(<<"b", ".", "t", "x", "t">>, 1, <<"d">>),
      UploadedFile(<<".", "p", "d", "f">>, 1, <<"d">>),
      UploadedFile(<<>>, 1, <<>>) }

\* at most this many files are on disk at once
MaxStored == 2

\* time passes up to here
MaxFileTime == 3700

MaxAgeHours == { 0, 1 }

\* get_session_files finds a file of the session, whatever the listing order
SessionHasFiles(store, sid) ==
    \E listing \in Listings(store) : GetSessionFiles(store, listing, sid, FALSE) /= <<>>

FsSaveFile(file, sid, saveFails) ==
    \E saved \in { SaveFile(uploads, outside, file, sid, saveFails, clock) } :
        /\ Cardinality(DOMAIN saved.store) + Cardinality(DOMAIN saved.outside) <= MaxStored
        /\ uploads' = saved.store
        /\ outside' = saved.outside
        /\ fop' = [ op |-> "save", session_id |-> sid, file |-> file,
                    raised |-> saved.raised, text |-> saved.text, info |-> saved.info,
                    hadFiles |-> SessionHasFiles(uploads, sid),
                    wrote |-> saved.store /= uploads \/ saved.outside /= outside ]
        /\ UNCHANGED <<ctxVars, toolVars, concVars, memVars, normVars, req>>

FsGetSessionFiles(sid, listing, listingFails) ==
    /\ fop' = [ op |-> "list", session_id |-> sid, failed |-> listingFails,
                files |-> GetSessionFiles(uploads, listing, sid, listingFails) ]
    /\ UNCHANGED <<ctxVars, toolVars, concVars, memVars, normVars, uploads, outside, req>>

FsClearSessionFiles(sid, listing, listingFails, unremovable) ==
    /\ uploads' = ClearSessionFiles(uploads, listing, sid, listingFails, unremovable)
    /\ fop' = [ op |-> "clear", session_id |-> sid,
                failed |-> listingFails \/ unremovable /= {} ]
    /\ UNCHANGED <<ctxVars, toolVars, concVars, memVars, normVars, outside, req>>

FsCleanupOldFiles(max_age_hours, listing, listingFails, unremovable) ==
    \E swept \in { CleanupOldFiles(uploads, listing, listingFails, clock,
                                    max_age_hours, unremovable) } :
        /\ uploads' = swept.store
        /\ fop' = [ op |-> "cleanup", max_age_hours |-> max_age_hours, now |-> clock,
                    before |-> uploads, deleted_count |-> swept.deleted_count,
                    failed |-> listingFails \/ unremovable /= {} ]
        /\ UNCHANGED <<ctxVars, toolVars, concVars, memVars, normVars, outside, req>>

\* an hour passes
FsHourPasses ==
    /\ clock + SecondsPerHour <= MaxFileTime
    /\ clock' = clock + SecondsPerHour
    /\ UNCHANGED <<ctxVars, toolVars, concVars, normVars, sessions, appended, pipeVars>>

InitFiles == CtxIdle /\ MemIdle /\ NormIdle /\ PipeIdle

NextFiles ==
    \/ \E file \in FsFiles, sid \in FsSessionIds, saveFails \in BOOLEAN :
           FsSaveFile(file, sid, saveFails)
    \/ \E sid \in FsListedIds, listing \in Listings(uploads), listingFails \in BOOLEAN :
           FsGetSessionFiles(sid, listing, listingFails)
    \/ \E sid \in FsListedIds, listing \in Listings(uploads), listingFails \in BOOLEAN :
           \E unremovable \in Unremovable(uploads, listingFails) :
               FsClearSessionFiles(sid, listing, listingFails, unremovable)
    \/ \E max_age_hours \in MaxAgeHours, listing \in Listings(uploads),
          listingFails \in BOOLEAN :
           \E unremovable \in Unremovable(uploads, listingFails) :
               FsCleanupOldFiles(max_age_hours, listing, listingFails, unremovable)
    \/ FsHourPasses

SpecFiles == InitFiles /\ [][NextFiles]_vars

(***************************************************************************)
(* Properties of the file store (checked under SpecFiles)                  *)
(***************************************************************************)

\* save_file returned a file record
SaveSucceeded == fop.op = "save" /\ ~fop.raised /\ fop.info /= NoFileInfo

\* what get_session_files may return now, over the orders of os.listdir
SessionFilesNow(sid) ==
    { GetSessionFiles(uploads, listing, sid, FALSE) : listing \in Listings(uploads) }

\* the one entry of a listing is the file that was uploaded
MatchesUpload(files, file) ==
    /\ Len(files) = 1
    /\ files[1].original_name = SecureFilename(file.filename)
    /\ files[1].file_type = Extension(file.filename)
    /\ files[1].file_size = file.size

\* C11: after save_file succeeded for a session that had no files,
\* get_session_files of the session returns exactly one entry, with the name,
\* type and size of the upload; after clear_session_files it returns none.
C11_SaveListClearRoundTrip ==
    /\ (SaveSucceeded /\ ~fop.hadFiles) =>
           \A files \in SessionFilesNow(fop.session_id) : MatchesUpload(files, fop.file)
    /\ (fop.op = "clear" /\ ~fop.failed) =>
           SessionFilesNow(fop.session_id) = { <<>> }

\* the round trip for session ids that are plain names
C11_RoundTripForPlainIds ==
    /\ (SaveSucceeded /\ ~fop.hadFiles /\ fop.session_id \in SessionIds) =>
           \A files \in SessionFilesNow(fop.session_id) : MatchesUpload(files, fop.file)
    /\ (fop.op = "clear" /\ ~fop.failed) =>
           SessionFilesNow(fop.session_id) = { <<>> }

\* a save succeeded for a session without files, and the session lists none
C11_Witness ==
    /\ SaveSucceeded
    /\ ~fop.hadFiles
    /\ SessionFilesNow(fop.session_id) = { <<>> }

\* the name ends in .pdf or .xlsx, in any case of letters
HasAllowedType(name) ==
    \E e \in { Pdf, Xlsx } : EndsWith(Lower(name), <<".">> \o e)

\* a stored file is of an allowed type and within the maximum size
ValidStored(name, stored) == HasAllowedType(name) /\ stored.size <= MaxFileSize

\* a file record is of an allowed type and within the maximum size
ValidRecord(file_info) ==
    file_info.file_type \in { Pdf, Xlsx } /\ file_info.file_size <= MaxFileSize

C13_StorageKeyInsideUploadFolder ==
    /\ SaveSucceeded => InsideUploadFolder(ResolvePath(fop.info.file_path))
    /\ DOMAIN outside = {}

\* a save for a session id that climbs out of the folder succeeded
C13_Witness ==
    /\ SaveSucceeded
    /\ fop.session_id = SidUp
    /\ fop.info.file_path \in DOMAIN outside

(***************************************************************************)
(* The search levels' own specification: the two search clients, each      *)
(* called with any query, with k given or omitted, over any local          *)
(* documents folder, while the world does any of the things listed above.  *)
(***************************************************************************)

SearchQueries == { <<"T">>, <<"p", " ", "d">> }

SearchKs == { <<>>, <<1>>, <<2>> }

LocalFolders ==
    { <<>>,
      << LocalDoc(<<"d", " ", "x">>, <<"y">>), LocalDoc(<<"t">>, <<"P", " ", "d">>) >> }

RawResults ==
    << ("content" :> <<" ">> @@ "text" :> <<"t">>),
       ("title" :> <<"P">> @@ "body" :> <<"d">>) >>

SimDocs == << [content |-> <<"t">>, title |-> <<>>, score |-> 1] >>

\* what the world may do during a call of AzureSearchClient.search
RemoteOutcomes ==
    { [count |-> c, embed |-> e, post |-> p, raw |-> <<>>, hybrid |-> FALSE] :
          c \in {"ok", "bad"}, e \in {"ok", "empty", "fails"},
          p \in {"transport", "status", "unparsable", "ok"} }
    \cup { [count |-> "ok", embed |-> e, post |-> "ok", raw |-> RawResults,
            hybrid |-> h] : e \in {"ok", "fails"}, h \in BOOLEAN }

\* what the world may do during a call of VectorDocumentSearch.search
LocalOutcomes ==
    { [count |-> c, index |-> i, create |-> cr, sim |-> "raises", simDocs |-> <<>>] :
          c \in {"ok", "bad"}, i \in {"missing", "corrupt", "present"},
          cr \in {"ok", "fails"} }
    \cup { [count |-> "ok", index |-> i, create |-> cr, sim |-> "ok", simDocs |-> d] :
               i \in {"missing", "corrupt", "present"}, cr \in {"ok", "fails"},
               d \in {<<>>, SimDocs} }

AzureSearchCall(query, k, documents, o) ==
    \E out \in { AzureSearch(azure, query, k, o) }, trace \in { AzureTrace(azure, query, k, o) } :
        /\ azure' = out.self
        /\ sop' = [ op |-> "azure", query |-> query, k |-> k, documents |-> documents,
                    o |-> o, before |-> azure,
                    raised |-> out.raised, text |-> out.text, results |-> out.results,
                    embedding |-> trace.embedding, requests |-> trace.requests ]
        /\ UNCHANGED <<vds, mop, llm, llmCalls, cmm>>
        /\ UNCHANGED <<ctxVars, concVars, memVars, normVars, pipeVars>>

VdsSearchCall(query, k, documents, o) ==
    \E out \in { VdsSearch(vds, query, k, documents, o) } :
        /\ vds' = out.self
        /\ sop' = [ op |-> "local", query |-> query, k |-> k, documents |-> documents,
                    o |-> o, before |-> vds,
                    raised |-> out.raised, text |-> out.text, results |-> out.results ]
        /\ UNCHANGED <<azure, mop, llm, llmCalls, cmm>>
        /\ UNCHANGED <<ctxVars, concVars, memVars, normVars, pipeVars>>

InitSearch ==
    /\ CtxIdle /\ MemIdle /\ NormIdle
    /\ uploads = <<>> /\ outside = <<>> /\ fop = NoFileOp /\ req = NoRequest /\ ConcIdle
    /\ azure \in { AzureInit([configured |-> c, vector |-> v, embeddingsOk |-> e]) :
                       c \in BOOLEAN, v \in BOOLEAN, e \in BOOLEAN }
    /\ vds \in { VdsInit(e) : e \in BOOLEAN }
    /\ sop = NoSearchOp
    /\ mop = NoMemOp
    /\ llm = NoLlm
    /\ llmCalls = <<>>
    /\ cmm = CmmIdle

NextSearch ==
    \/ \E query \in SearchQueries, k \in SearchKs, documents \in LocalFolders,
          o \in RemoteOutcomes : AzureSearchCall(query, k, documents, o)
    \/ \E query \in SearchQueries, k \in SearchKs, documents \in LocalFolders,
          o \in LocalOutcomes : VdsSearchCall(query, k, documents, o)

SpecSearch == InitSearch /\ [][NextSearch]_vars

\* the remote level did not answer: it is not configured, or the POST
\* failed, was refused or could not be read
RemoteFailed ==
    /\ sop.op = "azure"
    /\ ~sop.raised
    /\ ~sop.before.enabled \/ sop.o.post \in {"transport", "status", "unparsable"}

\* C14: when the remote search is unconfigured, unreachable or fails with a
\* transport or parsing error, search answers from the next level: if the
\* local documents hold a match for the query (so that keyword ranking, the
\* last level, returns snippets), the result is not empty.
C14_RemoteFailureFallsBackToLocal ==
    (RemoteFailed /\ KeywordSearch(sop.query, DefaultResultsCount, sop.documents) /= <<>>)
        => sop.results /= <<>>

\* the local levels do fall back among themselves: when the vector index
\* cannot answer, VectorDocumentSearch.search returns the keyword ranking
C14_LocalVectorFallsBackToKeyword ==
    (sop.op = "local" /\ ~sop.raised
        /\ (sop.before.use_keyword_search \/ sop.o.sim = "raises"))
        => sop.results = KeywordSearch(sop.query,
                                       IF sop.k = <<>> THEN DefaultResultsCount ELSE sop.k[1],
                                       sop.documents)

C14_Witness ==
    /\ RemoteFailed
    /\ KeywordSearch(sop.query, DefaultResultsCount, sop.documents) /= <<>>
    /\ sop.results = <<>>

\* C15: search(query, k) never raises to its caller.
C15_SearchNeverRaises == sop.op /= "none" => ~sop.raised

\* with k given, or SEARCH_RESULTS_COUNT an integer, no failure of the
\* embedding, the transport, the status, the response or the vector index
\* makes either search raise
C15_ListedFailuresNeverRaise ==
    (sop.op /= "none" /\ (sop.k /= <<>> \/ sop.o.count = "ok")) => ~sop.raised

C15_Witness ==
    /\ sop.op = "azure"
    /\ sop.before.enabled
    /\ sop.k = <<>>
    /\ sop.o.count = "bad"
    /\ sop.raised

(***************************************************************************)
(* Session statistics: get_session_info of SimpleMemoryManager, the        *)
(* manager TVAgent holds, under the memory's specification.                *)
(***************************************************************************)

\* a get_session_info call was the last thing done to the memory
InfoCalled == mop.op = "info"

\* C16: get_session_info(s) for a session that was never created returns
\* the {exists: false} shape; for an existing session it returns the
\* message count, the last-activity timestamp and the first-activity
\* timestamp.
C16_SessionInfoShape ==
    InfoCalled =>
        LET sid == mop.session_id
        IN  IF sid \notin DOMAIN sessions
            THEN DOMAIN mop.out = {"exists"} /\ mop.out.exists = FALSE
            ELSE /\ mop.out.message_count = Len(sessions[sid])
                 /\ mop.out.last_activity = appended[sid][Len(appended[sid])].timestamp
                 /\ mop.out.created = appended[sid][1].timestamp

\* what the code returns instead: for an unknown session a record with
\* message_count 0 and no timestamps; for a known one the number of stored
\* exchanges and the timestamps of the newest and of the oldest stored one
C16_SimpleSessionInfo ==
    InfoCalled =>
        LET sid == mop.session_id
        IN  /\ DOMAIN mop.out = {"session_id", "message_count", "last_activity", "created"}
            /\ mop.out.session_id = sid
            /\ IF sid \notin DOMAIN sessions
               THEN mop.out.message_count = 0 /\ mop.out.last_activity = 0
                    /\ mop.out.created = 0
               ELSE /\ mop.out.message_count = Len(sessions[sid])
                    /\ mop.out.last_activity = appended[sid][Len(appended[sid])].timestamp
                    /\ mop.out.created = sessions[sid][1].timestamp

C16_Witness ==
    /\ InfoCalled
    /\ mop.session_id \notin DOMAIN sessions
    /\ "exists" \notin DOMAIN mop.out
    /\ mop.out.message_count = 0

\* C19: calling get_session_info(s) twice with no write in between returns
\* identical values, and the call changes nothing: it creates no session
\* for an unknown id and leaves every session's exchange list as it was.
C19_GetSessionInfoIsIdempotent ==
    [][ (mop' /= mop /\ mop'.op = "info") =>
            /\ sessions' = sessions
            /\ (InfoCalled /\ mop'.session_id = mop.session_id) => mop'.out = mop.out
      ]_vars

C19_Witness ==
    /\ InfoCalled
    /\ mop.nth = 2
    /\ mop.session_id \notin DOMAIN sessions
    /\ sessions /= <<>>

(***************************************************************************)
(* The sweep of old files, under the file store's specification.           *)
(***************************************************************************)

\* cleanup_old_files was the last operation on the store
Swept == fop.op = "cleanup"

\* the age in seconds a file of the folder had when the sweep ran
AgeAtSweep(filename) == fop.now - fop.before[filename].mtime

MaxNewTurns == 2

\* what os.remove may refuse during a new-conversation call: nothing, or one
\* file
NewUnremovable(store, listingFails) ==
    IF listingFails THEN { {} } ELSE { {} } \cup { {k} : k \in DOMAIN store }

NewSessionIds == { SidA, SidAB, SidUp, SidList }

NewFiles ==
    { UploadedFile(<<"a", ".", "p", "d", "f">>, 1, <<"d">>),
      UploadedFile(<<"b", "_", "c", ".", "t", "x", "t">>, 1, <<"d">>) }

NewAddMessage(sid, human, ai) ==
    /\ clock <= MaxNewTurns
    /\ MemAddMessage(sid, human, ai)

\* TVAgent.start_new_conversation(sid): clear_session raises TypeError for
\* an unhashable id, before anything is cleared
StartNewConversation(sid, listing, listingFails, unremovable) ==
    /\ IF IsHashable(sid)
       THEN /\ sessions' = ClearSession(sessions, sid)
            /\ appended' = [s \in DOMAIN appended |-> IF s = sid THEN <<>> ELSE appended[s]]
            /\ uploads' = ClearSessionFiles(uploads, listing, sid, listingFails, unremovable)
       ELSE UNCHANGED <<sessions, appended, uploads>>
    /\ mop' = NoMemOp
    /\ fop' = [ op |-> "new", session_id |-> sid,
                raised |-> ~IsHashable(sid),
                failed |-> listingFails \/ unremovable /= {},
                hadMessages |-> IsHashable(sid) /\ sid \in DOMAIN sessions,
                hadFiles |-> SessionHasFiles(uploads, sid),
                flip |-> ~(fop.op = "new" /\ fop.flip) ]
    /\ UNCHANGED <<clock, outside, req, threads>>
    /\ UNCHANGED <<azure, vds, sop, llm, llmCalls, cmm>>
    /\ UNCHANGED <<ctxVars, normVars>>

InitNew == CtxIdle /\ MemIdle /\ NormIdle /\ PipeIdle

NextNew ==
    \/ \E sid \in SessionIds, human \in MemHumans, ai \in MemAis :
           NewAddMessage(sid, human, ai)
    \/ \E file \in NewFiles, sid \in NewSessionIds \ {SidList} :
           FsSaveFile(file, sid, FALSE)
    \/ \E sid \in NewSessionIds, listing \in Listings(uploads), listingFails \in BOOLEAN :
           \E unremovable \in NewUnremovable(uploads, listingFails) :
               StartNewConversation(sid, listing, listingFails, unremovable)

SpecNew == InitNew /\ [][NextNew]_vars

MaxLlmCalls == 2

LlmDeployments == { O3Mini, <<"O", "3">>, Gpt4oMini, <<>>, <<"unset">> }

LlmEnvs ==
    { [deployment |-> dep, max_completion_tokens |-> t] :
          dep \in LlmDeployments, t \in {"unset", "ok", "bad"} }

\* keyword arguments a caller may pass
ParamDicts ==
    { [k \in names |-> <<"1">>] :
          names \in { {}, {"temperature"}, {"top_p", "stop"},
                      {"frequency_penalty", "presence_penalty", "stop"} } }

LlmBuilt == llm.class \in {"AzureChatOpenAI", "O3MiniCompatibleChatOpenAI"}

\* TVAgent.__init__: llm = get_azure_llm()
BuildLlm(env) ==
    /\ llm = NoLlm
    /\ llm' = GetAzureLlm(env)
    /\ UNCHANGED <<azure, vds, sop, mop, llmCalls, cmm>>
    /\ UNCHANGED <<ctxVars, concVars, memVars, normVars, pipeVars>>

\* O3MiniCompatibleChatOpenAI(deployment_name=..., **extra)
ConstructCompatible(deployment, extra) ==
    /\ llm = NoLlm
    /\ llm' = CompatInit([deployment_name |-> deployment] @@ extra)
    /\ UNCHANGED <<azure, vds, sop, mop, llmCalls, cmm>>
    /\ UNCHANGED <<ctxVars, concVars, memVars, normVars, pipeVars>>

\* llm.invoke(messages, config, **kwargs); asked, the names the caller
\* passed, is a history field
Invoke(config, kwargs) ==
    /\ LlmBuilt
    /\ Len(llmCalls) < MaxLlmCalls
    /\ llmCalls' = Append(llmCalls, InvokeCall(llm, config, kwargs)
                                        @@ [asked |-> DOMAIN config \cup DOMAIN kwargs])
    /\ UNCHANGED <<azure, vds, sop, mop, llm, cmm>>
    /\ UNCHANGED <<ctxVars, concVars, memVars, normVars, pipeVars>>

\* TVAgent._generate_response: self.llm.invoke(messages)
AgentInvoke == Invoke(<<>>, <<>>)

InitLlm == CtxIdle /\ MemIdle /\ NormIdle /\ PipeIdle

NextLlm ==
    \/ \E env \in LlmEnvs : BuildLlm(env)
    \/ \E deployment \in LlmDeployments \ {<<"unset">>}, extra \in ParamDicts :
           ConstructCompatible(deployment, extra)
    \/ \E config \in ParamDicts, kwargs \in ParamDicts : Invoke(config, kwargs)
    \/ AgentInvoke

SpecLlm == InitLlm /\ [][NextLlm]_vars

\* the model name the object was built for is in the restricted set
RestrictedConfigured == LlmBuilt /\ Lower(llm.deployment_name) \in RestrictedModels

\* C18: when the configured model name is in the restricted set
\* {o3-mini, o3, o4-mini}, no call to the model provider carries any of
\* temperature, top_p, frequency_penalty or presence_penalty: they are
\* filtered at construction and before every invoke, repeated calls
\* included.
C18_RestrictedModelCallsCarryNoSamplingParams ==
    RestrictedConfigured =>
        /\ DOMAIN llm.params \cap UnsupportedParams = {}
        /\ \A i \in 1..Len(llmCalls) : Carried(llmCalls[i]) \cap UnsupportedParams = {}

\* for any other model name the parameters are passed on as given
C18_OtherModelsKeepParams ==
    (LlmBuilt /\ ~RestrictedConfigured /\ llm.class = "AzureChatOpenAI")
        => "temperature" \in DOMAIN llm.params

C18_Witness ==
    /\ RestrictedConfigured
    /\ llm.deployment_name = <<"O", "3">>
    /\ Len(llmCalls) >= 2
    /\ \A i \in 1..Len(llmCalls) :
           /\ llmCalls[i].asked \cap UnsupportedParams /= {}
           /\ "stop" \in DOMAIN llmCalls[i].kwargs


(***************************************************************************)
(* Where the context of a pass comes from (checked under Spec)             *)
(***************************************************************************)

\* the pass has listed the session's files and went on
ContextResolved == req.pc \in {"building", "generating", "recording", "done", "errored"}

\* C21: whenever the listing of the session's files is not empty when
\* process_message resolves the context, the context is the extracted file
\* text, the search is not queried for that message, and the result reports
\* the files as the source of the context.
C21_FilesPresentMeansFileContext ==
    (ContextResolved /\ req.uploaded_files /= <<>>) =>
        /\ req.searches = 0
        /\ req.pc /= "errored" =>
               /\ req.file_content /= <<>>
               /\ req.context = req.file_content
        /\ req.pc = "done" => req.result.contextSource = "uploaded_files"

\* what the code does: the branch is taken on the extracted text, not on
\* the listing
C21_FileTextMeansFileContext ==
    (ContextResolved /\ req.file_content /= <<>>) =>
        /\ req.searches = 0
        /\ req.context = req.file_content
        /\ req.pc = "done" => req.result.contextSource = "uploaded_files"

\* a pass over a session whose only file has no text: the file is counted,
\* the search was queried and is reported as the source
C21_Witness ==
    /\ req.pc = "done"
    /\ Len(req.uploaded_files) = 1
    /\ req.file_content = <<>>
    /\ req.searches = 1
    /\ req.result.filesUsed = 1
    /\ req.result.contextSource = "azure_search"


(***************************************************************************)
(* The passes of one agent over its lifetime: process_message called       *)
(* again and again on the same TVAgent, whose AzureSearchClient keeps its  *)
(* fields from one call to the next. The upload folder holds what earlier  *)
(* uploads left there; the remote index answers with short documents or    *)
(* with one longer than the context budget.                                *)
(***************************************************************************)

\* get_context(results, max_length=3000): the default budget of a context
ContextBudget == 3000

PdfA == UploadedFile(<<"a", ".", "p", "d", "f">>, 1, <<"d">>)
PdfNoText == UploadedFile(<<"b", ".", "p", "d", "f">>, 1, <<" ">>)
PdfC == UploadedFile(<<"c", ".", "p", "d", "f">>, 2, <<"e", "\n">>)
PdfLong == UploadedFile(<<"l", ".", "p", "d", "f">>, ContextBudget + 1,
                        Rep("y", ContextBudget + 1))

\* the upload folder after the files were saved for session a, one by one
RECURSIVE SavedAll(_, _)
SavedAll(store, files) ==
    IF files = <<>> THEN store
    ELSE SavedAll(SaveFile(store, <<>>, Head(files), SidA, FALSE, 1).store, Tail(files))

PassStores ==
    { SavedAll(<<>>, files) :
          files \in { <<>>, <<PdfNoText>>, <<PdfA, PdfNoText, PdfC>>, <<PdfLong>> } }

LongRaw == << ("content" :> Rep("x", ContextBudget + 1)) >>

\* what the world may do during the search of a pass
PassRemoteOutcomes ==
    { [count |-> "ok", embed |-> e, post |-> "ok", raw |-> r] :
          e \in {"ok", "fails"}, r \in {RawResults, LongRaw} }
    \cup { [count |-> "bad", embed |-> "ok", post |-> "ok", raw |-> <<>>],
           [count |-> "ok", embed |-> "ok", post |-> "transport", raw |-> <<>>] }

\* steps 1 and 2 of process_message on an agent whose document_search is
\* the AzureSearchClient built with the agent
ResolveContextRemote(listing, listingFails, o) ==
    /\ req.pc = "resolving"
    /\ LET uploaded_files == GetSessionFiles(uploads, listing, req.session_id, listingFails)
           file_content == ExtractAll(uploads, uploaded_files)
       IN  \E out \in { AzureSearch(azure, req.message, <<>>, o) } :
               /\ req' = ResolveWith(uploaded_files, file_content, out)
               /\ IF file_content /= <<>>
                  THEN UNCHANGED <<azure, sop>>
                  ELSE /\ azure' = out.self
                       /\ sop' = [ op |-> "azure", query |-> req.message, k |-> <<>>,
                                   documents |-> <<>>, o |-> o, before |-> azure,
                                   raised |-> out.raised, text |-> out.text,
                                   results |-> out.results ]
    /\ UNCHANGED <<vds, mop, llm, llmCalls, cmm>>
    /\ UNCHANGED <<ctxVars, concVars, memVars, normVars, uploads, outside, fop>>

\* the one message of the passes and what the provider may do with it
PassMessages == { <<"h", "i">> }

PassProviderOutcomes ==
    { Returned("str", TRUE, <<" ", "o", "k", " ">>),
      [raises |-> TRUE, excText |-> ExcTimeout, shape |-> "none",
       isStr |-> FALSE, text |-> <<>>] }

\* the memory after n earlier exchanges of session a, the i-th of them
\* recorded at time i - n - 1: before the clock of the passes starts at 1
RECURSIVE PriorFrom(_, _, _)
PriorFrom(sess, i, n) ==
    IF i > n THEN sess
    ELSE PriorFrom(AddMessage(sess, SidA, <<"h", "i">>, <<"o", "k">>, i - n - 1), i + 1, n)

\* no earlier exchange, one short of the cap of a session, and the cap
PriorCounts == { 0, HistoryCap - 1, HistoryCap }

InitPass ==
    /\ CtxIdle /\ NormIdle
    /\ sessions \in { PriorFrom(<<>>, 1, n) : n \in PriorCounts }
    /\ clock = 1
    /\ appended = [sid \in SessionIds |-> GetConversationHistory(sessions, sid)]
    /\ uploads \in PassStores
    /\ outside = <<>> /\ fop = NoFileOp /\ req = NoRequest /\ ConcIdle
    /\ azure \in { AzureInit([configured |-> TRUE, vector |-> v, embeddingsOk |-> TRUE]) :
                       v \in BOOLEAN }
    /\ vds = VdsInit(FALSE)
    /\ sop = NoSearchOp
    /\ mop = NoMemOp
    /\ llm = NoLlm
    /\ llmCalls = <<>>
    /\ cmm = CmmIdle

NextPass ==
    \/ \E message \in PassMessages : DirectCall(message, SidA)
    \/ \E listing \in Listings(uploads), listingFails \in BOOLEAN,
          o \in PassRemoteOutcomes : ResolveContextRemote(listing, listingFails, o)
    \/ BuildPrompt
    \/ \E outcome \in PassProviderOutcomes : Generate(outcome)
    \/ Record

SpecPass == InitPass /\ [][NextPass]_vars

\* the pass has a context and went on to the prompt
HasContext == req.pc \in {"building", "generating", "recording", "done"}

\* C22: in every pass, whether the context comes from uploaded files or
\* from search results, the context placed in the prompt is at most the
\* context budget long (a text is at least as long as it has elements).
C22_ContextWithinBudget == HasContext => Len(req.context) <= ContextBudget

\* a pass whose context comes from the search and is longer than the budget,
\* with the prompt built from it
C22_Witness ==
    /\ req.pc \in {"generating", "recording", "done"}
    /\ req.file_content = <<>>
    /\ Len(req.context) > ContextBudget
    /\ Len(req.messages[Len(req.messages)].content) > ContextBudget

\* the same for a context that comes from an uploaded file
C22_WitnessFiles ==
    /\ req.pc \in {"generating", "recording", "done"}
    /\ req.file_content /= <<>>
    /\ Len(req.context) > ContextBudget


\* the search client as __init__ left it: retrieval is by vector exactly
\* when the embeddings were built
AsBuilt(self) == [self EXCEPT !.vector_mode = self.embeddings]

\* the search of a pass reached the remote index
QueriedRemote == sop.op = "azure" /\ sop.before.enabled /\ ~sop.raised

\* C23: a pass leaves no state behind but the memory and the file store: the
\* retrieval mode (vector or text query) used for a message is the one the
\* client built at start-up would use for it, whatever happened to earlier
\* messages.
C23_RetrievalModeIndependentOfEarlierMessages ==
    QueriedRemote =>
        azure.vector_mode
            = AzureSearch(AsBuilt(sop.before), sop.query, sop.k, sop.o).self.vector_mode

\* a pass that ended well and queried by text although the client was built
\* for vector retrieval and the embedding service answered this time
C23_Witness ==
    /\ req.pc = "done"
    /\ req.searches = 1
    /\ QueriedRemote
    /\ sop.query = req.message
    /\ sop.before.embeddings /\ ~sop.before.vector_mode
    /\ sop.o.embed = "ok"
    /\ ~azure.vector_mode


\* the files of the listing that process_file can read
Readable(store, files) == SelectSeq(files, LAMBDA f : ~ProcessFile(store, f).raised)

\* what one readable file adds to file_content
FileSection(store, f) ==
    <<"\n--- Content from ">> \o f.original_name \o <<" ---\n">>
        \o ProcessFile(store, f).text \o <<"\n">>

\* C25: a failure extracting one uploaded file does not abort the others:
\* the context is made of the text of every listed file whose extraction
\* succeeds, in the order of the listing, and with one such file the pass
\* goes on to the prompt and to the generation (it can only fail there).
C25_ExtractionFailureSkipsOnlyThatFile ==
    (ContextResolved /\ Readable(uploads, req.uploaded_files) /= <<>>) =>
        LET ok == Readable(uploads, req.uploaded_files)
        IN  /\ req.pc = "errored" => req.invokes = 1
            /\ req.pc /= "errored" =>
                   req.context = Join([i \in 1..Len(ok) |-> FileSection(uploads, ok[i])], <<>>)

\* three files listed, the first of them without text, the other two in the
\* context, and the prompt built
C25_Witness ==
    /\ req.pc = "generating"
    /\ Len(req.uploaded_files) = 3
    /\ ProcessFile(uploads, req.uploaded_files[1]).raised
    /\ Len(Readable(uploads, req.uploaded_files)) = 2
    /\ req.context /= <<>>
    /\ req.messages /= <<>>


(***************************************************************************)
(* The calls a pass makes, its order and what it leaves in the memory      *)
(* (checked under Spec)                                                    *)
(***************************************************************************)

InPass == {"resolving", "building", "generating", "recording"}

\* from one stage to the next, or to the failure record
PassTransitions ==
    { <<"resolving", "building">>, <<"building", "generating">>,
      <<"generating", "recording">>, <<"recording", "done">> }
    \cup { <<stage, "errored">> : stage \in InPass }

\* C29: a pass goes through resolving, building, generating, recording and
\* done in this order, or ends in the failure record from any of them; the
\* history put in the prompt is the one read before the exchange is
\* appended, the exchange is appended only once the normalised answer
\* exists, and the result record is built from the memory after the append.
C29_PassOrder ==
    [][ /\ req.pc \in InPass =>
               \/ req'.pc = req.pc
               \/ <<req.pc, req'.pc>> \in PassTransitions
        /\ (req.pc = "building" /\ req'.pc = "generating") =>
               /\ sessions = req.memAtStart
               /\ req'.conversation_history
                      = GetConversationHistory(req.memAtStart, req.session_id)
        /\ sessions' /= sessions =>
               /\ req.pc = "recording" /\ req'.pc = "done"
               /\ req.invokes = 1
               /\ req.response /= <<>>
               /\ sessions'[req.session_id][Len(sessions'[req.session_id])].ai
                      = req.response
        /\ (req.pc = "recording" /\ req'.pc = "done") =>
               /\ sessions' /= sessions
               /\ req'.result.response = req.response
               /\ req'.result.session_info = GetSessionInfo(sessions', req.session_id)
      ]_vars

\* the second pass of a session ended: its prompt carried the first
\* exchange and not its own, and the result counts both
C29_Witness ==
    /\ req.pc = "done"
    /\ Len(req.conversation_history) = 1
    /\ Len(sessions[req.session_id]) = 2
    /\ req.result.session_info.message_count = 2
    /\ sessions[req.session_id][2].human = req.message


(***************************************************************************)
(* What a pass leaves in the memory (checked under SpecPass, where the     *)
(* session may already hold as many exchanges as it retains)               *)
(***************************************************************************)

\* the session's history when the pass started, and now
HistoryBefore == GetConversationHistory(req.memAtStart, req.session_id)
HistoryNow == GetConversationHistory(sessions, req.session_id)

\* C30: a pass that ends well has appended exactly one exchange, the
\* message with the normalised answer: it is the last entry of the history,
\* the entries before it are the latest earlier ones, and the session_info
\* of the result counts it (the earlier count plus one, at most 10); a pass
\* that ends in the failure record leaves the memory as it was.
C30_SuccessfulPassAppendsOneExchange ==
    /\ req.pc = "done" =>
           LET n == Len(HistoryNow)
           IN  /\ n = Min(Len(HistoryBefore) + 1, HistoryCap)
               /\ HistoryNow[n].human = req.message
               /\ HistoryNow[n].ai = req.response
               /\ \A i \in 1..(n - 1) :
                      HistoryNow[i] = HistoryBefore[Len(HistoryBefore) - (n - 1) + i]
               /\ req.result.response = req.response
               /\ req.result.session_info.message_count = n
               /\ \A sid \in DOMAIN sessions \ {req.session_id} :
                      sid \in DOMAIN req.memAtStart /\ sessions[sid] = req.memAtStart[sid]
    /\ req.pc = "errored" => sessions = req.memAtStart

\* a pass that ended well on a session that already held ten exchanges
C30_Witness ==
    /\ req.pc = "done"
    /\ Len(HistoryBefore) = HistoryCap
    /\ req.result.session_info.message_count = HistoryCap
    /\ HistoryNow /= HistoryBefore


(***************************************************************************)
(* clear_session_files while the sweep runs.  The periodic cleanup thread  *)
(* of the application (max_age_hours=2) and the cleanup endpoint           *)
(* (max_age_hours=1) remove old files while a request clears a session:    *)
(* the statements of clear_session_files interleave with the os.remove     *)
(* of the sweep.  fop is the clear in progress:                            *)
(* [op |-> "clearing", pc, session_files, i, failed].                      *)
(***************************************************************************)

\* the uploads are more than two hours old when the clear starts
RaceStart == 2 * SecondsPerHour + 2

\* two old files of session a, and a third one that was just uploaded
RaceStores ==
    { SavedAll(<<>>, <<PdfA, PdfNoText>>),
      SaveFile(SavedAll(<<>>, <<PdfA, PdfNoText>>), <<>>, PdfC, SidA, FALSE, RaceStart).store }

SweepAges == { 1, 2 }

\* session_files = self.get_session_files(session_id)
ClearBegin(listing) ==
    /\ fop = NoFileOp
    /\ fop' = [ op |-> "clearing", pc |-> "exists", session_id |-> SidA,
                session_files |-> GetSessionFiles(uploads, listing, SidA, FALSE),
                i |-> 1, failed |-> FALSE ]
    /\ UNCHANGED <<ctxVars, toolVars, concVars, memVars, normVars, uploads, outside, req>>

\* for file_info in session_files: if os.path.exists(file_path):
ClearExists ==
    /\ fop.op = "clearing" /\ fop.pc = "exists"
    /\ fop' = IF fop.i > Len(fop.session_files)
              THEN [fop EXCEPT !.pc = "returned"]
              ELSE IF NameOf(fop.session_files[fop.i].file_path) \in DOMAIN uploads
              THEN [fop EXCEPT !.pc = "remove"]
              ELSE [fop EXCEPT !.i = @ + 1]
    /\ UNCHANGED <<ctxVars, toolVars, concVars, memVars, normVars, uploads, outside, req>>

\* os.remove(file_path): FileNotFoundError when the file is gone, which the
\* handler around the loop logs
ClearRemove ==
    /\ fop.op = "clearing" /\ fop.pc = "remove"
    /\ LET name == NameOf(fop.session_files[fop.i].file_path)
       IN  IF name \in DOMAIN uploads
           THEN /\ uploads' = RemoveFile(uploads, name)
                /\ fop' = [fop EXCEPT !.pc = "exists", !.i = @ + 1]
           ELSE /\ fop' = [fop EXCEPT !.pc = "returned", !.failed = TRUE]
                /\ UNCHANGED uploads
    /\ UNCHANGED <<ctxVars, toolVars, concVars, memVars, normVars, outside, req>>

\* os.remove(file_path) of cleanup_old_files, in the sweep's thread, for a
\* file it found old enough
SweepRemove(filename, max_age_hours) ==
    /\ filename \in DOMAIN uploads
    /\ TooOld(clock - uploads[filename].mtime, max_age_hours)
    /\ uploads' = RemoveFile(uploads, filename)
    /\ UNCHANGED <<ctxVars, toolVars, concVars, memVars, normVars, outside, fop, req>>

\* get_session_files, step by step.  for filename in os.listdir(...)
ListBegin(listing) ==
    /\ fop = NoFileOp
    /\ fop' = [ op |-> "listing", pc |-> "isfile", session_id |-> SidA,
                listing |-> listing, session_files |-> <<>>, i |-> 1, failed |-> FALSE ]
    /\ UNCHANGED <<ctxVars, toolVars, concVars, memVars, normVars, uploads, outside, req>>

\* if filename.startswith(f"{session_id}_"): if os.path.isfile(file_path):
\* original_name.rsplit('.', 1)[1], an IndexError for a name without a dot
ListIsFile ==
    /\ fop.op = "listing" /\ fop.pc = "isfile"
    /\ fop' = IF fop.i > Len(fop.listing)
              THEN [fop EXCEPT !.pc = "returned"]
              ELSE LET filename == fop.listing[fop.i]
                       prefix == SessionPrefix(fop.session_id)
                   IN  IF StartsWith(filename, prefix) /\ filename \in DOMAIN uploads
                       THEN IF HasDot(SubSeq(filename, Len(prefix) + 1, Len(filename)))
                            THEN [fop EXCEPT !.pc = "getsize"]
                            ELSE [fop EXCEPT !.pc = "returned", !.failed = TRUE]
                       ELSE [fop EXCEPT !.i = @ + 1]
    /\ UNCHANGED <<ctxVars, toolVars, concVars, memVars, normVars, uploads, outside, req>>

\* file_size = os.path.getsize(file_path): FileNotFoundError when the file is
\* gone, which the handler around the loop logs; session_files.append(...)
ListGetSize ==
    /\ fop.op = "listing" /\ fop.pc = "getsize"
    /\ LET filename == fop.listing[fop.i]
           prefix == SessionPrefix(fop.session_id)
       IN  fop' = IF filename \in DOMAIN uploads
                  THEN [fop EXCEPT !.pc = "isfile", !.i = @ + 1,
                                   !.session_files =
                                       Append(@, FileInfo(SubSeq(filename, Len(prefix) + 1,
                                                                 Len(filename)),
                                                          PathJoin(UploadFolder, filename),
                                                          uploads[filename].size,
                                                          fop.session_id))]
                  ELSE [fop EXCEPT !.pc = "returned", !.failed = TRUE]
    /\ UNCHANGED <<ctxVars, toolVars, concVars, memVars, normVars, uploads, outside, req>>

InitRace ==
    /\ CtxIdle /\ NormIdle
    /\ sessions = <<>>
    /\ clock = RaceStart
    /\ appended = [sid \in SessionIds |-> <<>>]
    /\ uploads \in RaceStores
    /\ outside = <<>> /\ fop = NoFileOp /\ req = NoRequest /\ ConcIdle
    /\ ToolsIdle

NextRace ==
    \/ \E listing \in Listings(uploads) : ClearBegin(listing)
    \/ ClearExists
    \/ ClearRemove
    \/ \E listing \in Listings(uploads) : ListBegin(listing)
    \/ ListIsFile
    \/ ListGetSize
    \/ \E filename \in DOMAIN uploads, max_age_hours \in SweepAges :
           SweepRemove(filename, max_age_hours)

SpecRace == InitRace /\ [][NextRace]_vars

ClearReturned == fop.op = "clearing" /\ fop.pc = "returned"

\* the files the clear listed that are still in the upload folder
LeftBehind ==
    { i \in 1..Len(fop.session_files) :
          NameOf(fop.session_files[i].file_path) \in DOMAIN uploads }

\* C24: clear_session_files tolerates a file that the sweep removes between
\* the listing and the removal: it still ends without an error and none of
\* the files the session had at the start remains.
C24_ClearToleratesMissingFiles ==
    ClearReturned => (~fop.failed /\ LeftBehind = {})

\* what the code tolerates: a file that is gone when os.path.exists looks
C24_ClearThatDidNotFailLeavesNothing ==
    (ClearReturned /\ ~fop.failed) => LeftBehind = {}

\* the sweep removed a file between os.path.exists and os.remove: the clear
\* ended in its handler and a file it had listed is still there
C24_Witness ==
    /\ ClearReturned
    /\ fop.failed
    /\ LeftBehind /= {}


(***************************************************************************)
(* The number of live sessions.  A process uses one memory manager, the    *)
(* SimpleMemoryManager of the agents or the ConversationMemoryManager;     *)
(* requests for ever new session ids arrive, one a minute.                 *)
(***************************************************************************)

\* the requests go on until this many sessions more than the cap were seen
CapOverrun == 2

\* the n-th session id
NthSid(n) == Rep("s", n)

\* add_message of the SimpleMemoryManager for a session id not seen before
CapSimpleAdd ==
    /\ cmm = CmmIdle
    /\ clock <= MaxSessions + CapOverrun
    /\ sessions' = AddMessage(sessions, NthSid(clock), <<"h", "i">>, <<"o", "k">>, clock)
    /\ clock' = clock + 1
    /\ UNCHANGED <<appended, azure, vds, sop, mop, llm, llmCalls, cmm>>
    /\ UNCHANGED <<ctxVars, concVars, normVars, pipeVars>>

\* add_message of the ConversationMemoryManager for a session id not seen
\* before
CapCmmAdd ==
    /\ sessions = <<>>
    /\ clock <= MaxSessions + CapOverrun
    /\ cmm' = [CmmAddMessage(cmm, NthSid(clock), clock) EXCEPT
                   !.touched = Put(@, NthSid(clock), clock),
                   !.written = Put(@, NthSid(clock), clock),
                   !.ops = @ + 1]
    /\ clock' = clock + 1
    /\ UNCHANGED <<sessions, appended, azure, vds, sop, mop, llm, llmCalls>>
    /\ UNCHANGED <<ctxVars, concVars, normVars, pipeVars>>

\* get_memory or add_message of the ConversationMemoryManager, once in a
\* run, for a session it holds: mop records how many sessions were held and
\* the exchanges the session held before and after
CapCmmAgain(sid, which) ==
    /\ mop = NoMemOp
    /\ clock <= MaxSessions + CapOverrun
    /\ sid \in DOMAIN cmm.active_memories
    /\ \E after \in { IF which = "add_message" THEN CmmAddMessage(cmm, sid, clock)
                       ELSE CmmGetMemory(cmm, sid, clock) } :
           /\ cmm' = [after EXCEPT !.touched = Put(@, sid, clock),
                                   !.written = Put(@, sid, clock),
                                   !.ops = @ + 1]
           /\ mop' = [ op |-> which, session_id |-> sid,
                       held |-> Cardinality(DOMAIN cmm.active_memories),
                       idle |-> clock - cmm.session_timestamps[sid],
                       before |-> cmm.active_memories[sid],
                       after |-> after.active_memories[sid] ]
    /\ clock' = clock + 1
    /\ UNCHANGED <<sessions, appended, azure, vds, sop, llm, llmCalls>>
    /\ UNCHANGED <<ctxVars, concVars, normVars, pipeVars>>

InitCap == CtxIdle /\ MemIdle /\ NormIdle /\ PipeIdle

NextCap ==
    \/ CapSimpleAdd
    \/ CapCmmAdd
    \/ \E sid \in { NthSid(1), NthSid(clock - 1) }, which \in {"get_memory", "add_message"} :
           CapCmmAgain(sid, which)

SpecCap == InitCap /\ [][NextCap]_vars

\* the sessions the manager in use holds
LiveSessions == DOMAIN sessions \cup DOMAIN cmm.active_memories

\* C27: after any sequence of memory operations the number of live
\* sessions is at most the cap of 100, the sessions with the oldest last
\* activity having been evicted first.
C27_LiveSessionsWithinCap ==
    /\ Cardinality(LiveSessions) <= MaxSessions
    /\ \A sid \in DOMAIN cmm.touched \ DOMAIN cmm.active_memories :
           \A kept \in DOMAIN cmm.active_memories :
               cmm.touched[sid] <= cmm.touched[kept]

\* what ConversationMemoryManager does: the cap is enforced before the
\* session of the call is created, so one session more than the cap may be
\* live, and the evicted sessions are the oldest
C27_CmmAtMostOneOverCap ==
    /\ Cardinality(DOMAIN cmm.active_memories) <= MaxSessions + 1
    /\ \A sid \in DOMAIN cmm.touched \ DOMAIN cmm.active_memories :
           \A kept \in DOMAIN cmm.active_memories :
               cmm.touched[sid] <= cmm.touched[kept]

\* the SimpleMemoryManager of the agents holds 101 sessions
C27_Witness ==
    /\ cmm = CmmIdle
    /\ Cardinality(DOMAIN sessions) = MaxSessions + 1

\* the ConversationMemoryManager holds 101 sessions after it evicted one
C27_WitnessCmm ==
    /\ Cardinality(DOMAIN cmm.active_memories) = MaxSessions + 1
    /\ NthSid(1) \notin DOMAIN cmm.active_memories

(***************************************************************************)
(* Expiry.  A ConversationMemoryManager serves writes and reads of two     *)
(* sessions while time passes, half the inactivity window at a time.       *)
(***************************************************************************)

\* at most this many calls of the manager in a run
MaxCmmOps == 4

\* time passes up to this long after the start
ExpiryHorizon == 2 * SessionTimeout + MaxCmmOps + 1

CmmReady == cmm.ops < MaxCmmOps /\ sessions = <<>>

\* add_message(session_id, ...)
CmmWrite(sid) ==
    /\ CmmReady
    /\ cmm' = [CmmAddMessage(cmm, sid, clock) EXCEPT
                   !.touched = Put(@, sid, clock),
                   !.written = Put(@, sid, clock),
                   !.ops = @ + 1]
    /\ clock' = clock + 1
    /\ UNCHANGED <<sessions, appended, azure, vds, sop, mop, llm, llmCalls>>
    /\ UNCHANGED <<ctxVars, concVars, normVars, pipeVars>>

\* get_conversation_history(session_id) or get_session_info(session_id) on
\* a session the manager holds: neither calls get_memory
CmmRead(sid, which) ==
    /\ CmmReady
    /\ sid \in DOMAIN cmm.active_memories
    /\ cmm' = [cmm EXCEPT !.touched = Put(@, sid, clock), !.ops = @ + 1]
    /\ mop' = [ op |-> which, session_id |-> sid, out |-> CmmGetSessionInfo(cmm, sid),
                nth |-> cmm.ops + 1 ]
    /\ clock' = clock + 1
    /\ UNCHANGED <<sessions, appended, azure, vds, sop, llm, llmCalls>>
    /\ UNCHANGED <<ctxVars, concVars, normVars, pipeVars>>

\* half the inactivity window passes
TimePasses ==
    /\ clock + SessionTimeout \div 2 <= ExpiryHorizon
    /\ clock' = clock + SessionTimeout \div 2
    /\ UNCHANGED <<sessions, appended, ctxVars, toolVars, concVars, normVars, pipeVars>>

InitExpiry == CtxIdle /\ MemIdle /\ NormIdle /\ PipeIdle

NextExpiry ==
    \/ \E sid \in SessionIds : CmmWrite(sid)
    \/ \E sid \in SessionIds, which \in {"cmm_history", "cmm_info"} : CmmRead(sid, which)
    \/ TimePasses

SpecExpiry == InitExpiry /\ [][NextExpiry]_vars

\* C28: every read and every write of a session refreshes its last-activity
\* timestamp, so a session read or written within the inactivity window is
\* still held.
C28_ReadsAndWritesRefresh ==
    \A sid \in DOMAIN cmm.touched :
        /\ sid \in DOMAIN cmm.active_memories =>
               cmm.session_timestamps[sid] = cmm.touched[sid]
        /\ clock - cmm.touched[sid] <= SessionTimeout =>
               sid \in DOMAIN cmm.active_memories

\* what the code does: only writes refresh the timestamp
C28_WritesRefresh ==
    \A sid \in DOMAIN cmm.written :
        /\ sid \in DOMAIN cmm.active_memories =>
               cmm.session_timestamps[sid] = cmm.written[sid]
        /\ clock - cmm.written[sid] <= SessionTimeout =>
               sid \in DOMAIN cmm.active_memories

\* a session that was read less than the inactivity window ago and is gone
C28_Witness ==
    \E sid \in DOMAIN cmm.touched :
        /\ cmm.touched[sid] > cmm.written[sid]
        /\ clock - cmm.touched[sid] <= SessionTimeout
        /\ sid \notin DOMAIN cmm.active_memories


(***************************************************************************)
(* The prompt of a pass (checked under SpecPass, where the session may     *)
(* hold more exchanges than the prompt takes)                              *)
(***************************************************************************)

\* the prompt is built
PromptBuilt == req.pc \in {"generating", "recording", "done"}

\* the last turn: the context, when there is one, then the question
LastTurnOk(turn) ==
    /\ turn.role = "human"
    /\ IF req.context = <<>>
       THEN turn.content = <<"User's question: ">> \o req.message
       ELSE \E header \in { <<"Information from uploaded files:\n">>,
                            <<"Relevant information from knowledge base:\n">> } :
                turn.content = header \o req.context
                                   \o <<"\n\nUser's question: ">> \o req.message

\* the prompt is one system turn, the last min(4, n) exchanges in the order
\* they were stored, each as a human turn and a turn of role answerRole, and
\* the last turn
PromptShape(answerRole) ==
    LET history == req.conversation_history
        k == Min(HistoryWindow, Len(history))
        messages == req.messages
    IN  /\ Len(messages) = 2 + 2 * k
        /\ messages[1] = [role |-> "system", content |-> SystemPrompt]
        /\ \A j \in 1..k :
               LET exchange == history[Len(history) - k + j]
               IN  /\ messages[2 * j]
                          = [role |-> "human", content |-> <<"User: ">> \o exchange.human]
                   /\ messages[2 * j + 1]
                          = [role |-> answerRole,
                             content |-> <<"Assistant: ">> \o exchange.ai]
        /\ LastTurnOk(messages[Len(messages)])

\* C31: the prompt is one system-instructions turn, then the last
\* min(4, n) exchanges of the history in chronological order, each as a
\* human turn followed by an assistant turn, then one user turn with the
\* context (if not empty) and the question: 2 + 2*min(4, n) turns.
C31_PromptTurns == PromptBuilt => PromptShape("assistant")

\* what the code builds: the earlier answers are system messages whose text
\* starts with "Assistant: "
C31_PromptTurnsWithSystemAnswers == PromptBuilt => PromptShape("system")

\* a prompt built on a history of ten exchanges: ten turns, the four
\* earlier answers in it as system messages
C31_Witness ==
    /\ PromptBuilt
    /\ Len(req.conversation_history) = HistoryCap
    /\ Len(req.messages) = 2 + 2 * HistoryWindow
    /\ \A j \in 1..HistoryWindow : req.messages[2 * j + 1].role = "system"


(***************************************************************************)
(* The order of assembly in get_context (checked under SpecCtx)            *)
(***************************************************************************)

\* the chunk of the i-th formatted snippet
CtxChunk(i) == FormatChunk(CtxFormatted[i].title, Strip(CtxFormatted[i].content))

\* the summed length of the first i chunks
RECURSIVE CtxRunLength(_)
CtxRunLength(i) == IF i = 0 THEN 0 ELSE CtxRunLength(i - 1) + Len(CtxChunk(i))

\* the first snippet whose chunk does not fit after the chunks before it, or
\* one past the last snippet when every chunk fits
CtxFirstMisfit ==
    LET misfits == { i \in 1..Len(CtxFormatted) : CtxRunLength(i) > ctxMax }
    IN  IF misfits = {} THEN Len(CtxFormatted) + 1
        ELSE CHOOSE i \in misfits : \A j \in misfits : i <= j

\* the parts the claim describes
CtxExpectedParts ==
    LET p == CtxFirstMisfit
        whole == [i \in 1..(p - 1) |-> CtxChunk(i)]
        remaining == ctxMax - CtxRunLength(p - 1)
    IN  IF p <= Len(CtxFormatted) /\ remaining > 100
        THEN Append(whole, SliceTo(CtxChunk(p), remaining - 3) \o Ellipsis)
        ELSE whole

\* C32: get_context takes the snippets in order, appends every chunk whole while
\* running length plus chunk length is at most max_length, and at the first
\* chunk that does not fit appends a truncated chunk ending in "..." only if
\* the remaining budget is above 100 and stops: nothing of a later snippet is
\* in the result, even of one short enough to fit.
C32_AssemblyStopsAtFirstMisfit ==
    CtxCalled => ctxOut = Join(CtxExpectedParts, NL)

\* a first chunk over a budget of at most 100 and a second chunk within it: the
\* result is empty
C32_Witness ==
    /\ CtxCalled
    /\ Len(CtxFormatted) = 2
    /\ Len(CtxChunk(1)) > ctxMax
    /\ ctxMax <= 100
    /\ Len(CtxChunk(2)) <= ctxMax
    /\ ctxOut = <<>>

\* a truncated first chunk, and a second snippet that is left out
C32_WitnessTruncated ==
    /\ CtxCalled
    /\ Len(CtxFormatted) = 2
    /\ CtxFirstMisfit = 1
    /\ ctxMax > 100
    /\ EndsWith(ctxOut, Ellipsis)
    /\ Len(ctxOut) = ctxMax

(***************************************************************************)
(* The keyword ranking: _keyword_search called with any query and any      *)
(* number of results over any documents folder.                            *)
(***************************************************************************)

\* at most this many documents in the folder
MaxDocs == 3

\* documents that tie, that match in the title, and that do not match
RankDocs ==
    { LocalDoc(<<"p">>, <<>>), LocalDoc(<<"p", " ", "p">>, <<>>),
      LocalDoc(<<"x">>, <<"P">>), LocalDoc(<<"y">>, <<>>) }

RankFolders == UNION { [1..n -> RankDocs] : n \in 0..MaxDocs }

\* a word, a word twice, two words in upper and lower case, a word in no document
RankQueries == { <<"p">>, <<"p", " ", "p">>, <<"P", " ", "x">>, <<"z">> }

RankKs == 0..MaxDocs

KeywordSearchCall(query, k, documents) ==
    /\ sop.op = "none"
    /\ sop' = [ op |-> "keyword", query |-> query, k |-> k, documents |-> documents,
                results |-> KeywordSearch(query, k, documents) ]
    /\ UNCHANGED <<azure, vds, mop, llm, llmCalls, cmm>>
    /\ UNCHANGED <<ctxVars, concVars, memVars, normVars, pipeVars>>

InitRank == CtxIdle /\ MemIdle /\ NormIdle /\ PipeIdle

NextRank ==
    \E query \in RankQueries, k \in RankKs, documents \in RankFolders :
        KeywordSearchCall(query, k, documents)

SpecRank == InitRank /\ [][NextRank]_vars

Ranked == sop.op = "keyword"

\* the score the claim gives the i-th document
RankScore(i) ==
    LET words == WordSet(sop.query)
        doc == sop.documents[i]
    IN  Cardinality({ w \in words : w \in WordSet(doc.content) })
            + 2 * Cardinality({ w \in words : w \in WordSet(doc.title) })

\* the documents that score above 0
RankIncluded == { i \in 1..Len(sop.documents) : RankScore(i) > 0 }

\* the place of document i among them: after every document of a higher
\* score and after every earlier document of the same score
RankPlace(i) ==
    1 + Cardinality({ j \in RankIncluded :
                          \/ RankScore(j) > RankScore(i)
                          \/ RankScore(j) = RankScore(i) /\ j < i })

\* C33: the keyword ranking scores a document by the number of distinct query
\* words in its content plus twice the number in its title, leaves out the
\* documents of score 0, orders the others by descending score, ties in the
\* order of the folder, and returns at most k of them.
C33_KeywordRanking ==
    Ranked =>
        /\ Len(sop.results) = Min(sop.k, Cardinality(RankIncluded))
        /\ \A i \in RankIncluded :
               RankPlace(i) <= sop.k =>
                   sop.results[RankPlace(i)] =
                       [ content |-> sop.documents[i].content,
                         title |-> sop.documents[i].title, score |-> RankScore(i) ]

\* three documents: the third outranks the first two, which tie and keep
\* their order, and k leaves the last one out
C33_Witness ==
    /\ Ranked
    /\ sop.k = 2
    /\ Len(sop.documents) = 3
    /\ RankIncluded = {1, 2, 3}
    /\ RankPlace(3) = 1 /\ RankPlace(1) = 2 /\ RankPlace(2) = 3
    /\ sop.documents[1] /= sop.documents[2]
    /\ Len(sop.results) = 2
    /\ sop.results[2].content = sop.documents[1].content

(***************************************************************************)
(* The failed embedding (checked under SpecSearch)                         *)
(***************************************************************************)

\* a call of the remote search in vector mode whose embedding step failed
EmbeddingFailed ==
    /\ sop.op = "azure"
    /\ sop.before.vector_mode
    /\ sop.embedding = "failed"

\* C34: when vector retrieval is on and the query embedding cannot be
\* computed, the same call of search goes on as a text query: it sends
\* exactly one request, with the query text and no vector query, and raises
\* nothing.
C34_EmbeddingFailureDegradesToText ==
    EmbeddingFailed =>
        /\ Len(sop.requests) = 1
        /\ sop.requests[1].search = <<sop.query>>
        /\ ~sop.requests[1].vectorQueries
        /\ ~sop.raised

\* a call whose embedding raised, whose text request was answered, and which
\* returned the documents found
C34_Witness ==
    /\ EmbeddingFailed
    /\ sop.o.embed = "fails"
    /\ sop.o.post = "ok"
    /\ sop.results /= <<>>
    /\ sop.requests[1].search = <<sop.query>>

(***************************************************************************)
(* A file that vanishes during a listing (checked under SpecRace)          *)
(***************************************************************************)

ListReturned == fop.op = "listing" /\ fop.pc = "returned"

\* the files of the session that are in the upload folder and not in the
\* list returned
NotListed ==
    { filename \in DOMAIN uploads :
          /\ StartsWith(filename, SessionPrefix(fop.session_id))
          /\ \A j \in 1..Len(fop.session_files) :
                 NameOf(fop.session_files[j].file_path) /= filename }

\* C35: a file that disappears while get_session_files is listing, between
\* os.path.isfile and os.path.getsize, is taken as deleted and not as an
\* error: every other file of the session that still exists is returned.
C35_ListingToleratesVanishedFile ==
    ListReturned => (~fop.failed /\ NotListed = {})

\* what holds: a listing that did not end in its handler returned every file
\* of the session that exists
C35_ListingThatDidNotFailIsComplete ==
    (ListReturned /\ ~fop.failed) => NotListed = {}

\* the sweep removed a file between isfile and getsize: the listing ended in
\* its handler and a file of the session that exists is not in the list
C35_Witness ==
    /\ ListReturned
    /\ fop.failed
    /\ fop.listing[fop.i] \notin DOMAIN uploads
    /\ NotListed /= {}

(***************************************************************************)
(* The cleanup worker: the thread start_cleanup_thread starts.  It sleeps  *)
(* 30 minutes, sweeps the upload folder for files older than 2 hours, and  *)
(* after an exception sleeps a minute and goes on.  Meanwhile files are    *)
(* uploaded.  fop is the worker: pc is its position, errors the number of  *)
(* sweeps that raised, last what the last sweep did.                       *)
(***************************************************************************)

\* time.sleep(1800)
SleepSeconds == 1800

\* time.sleep(60)
BackoffSeconds == 60

\* cleanup_old_files(max_age_hours=2)
WorkerMaxAgeHours == 2

\* the clock stops after this many sleeps
MaxSweeps == 6

\* at most this many sweeps raise
MaxWorkerErrors == 2

WorkerHorizon == MaxSweeps * SleepSeconds

WorkerFiles == { PdfA }

\* a plain session id and one that climbs out of the upload folder
WorkerSessionIds == { SidA, SidUp }

\* the names under which the uploads are stored
WorkerKeys ==
    UNION { DOMAIN SaveFile(<<>>, <<>>, file, sid, FALSE, 0).store
                \cup DOMAIN SaveFile(<<>>, <<>>, file, sid, FALSE, 0).outside :
            file \in WorkerFiles, sid \in WorkerSessionIds }

\* save_file in a request, early enough for the file to grow old before the
\* clock stops
WorkerUpload(file, sid) ==
    /\ clock + WorkerMaxAgeHours * SecondsPerHour < WorkerHorizon
    /\ \E saved \in { SaveFile(uploads, outside, file, sid, FALSE, clock) } :
           /\ uploads' = saved.store
           /\ outside' = saved.outside
    /\ UNCHANGED <<ctxVars, toolVars, concVars, memVars, normVars, fop, req>>

\* time.sleep(1800)
WorkerSleep ==
    /\ fop.pc = "sleep"
    /\ clock' = Min(clock + SleepSeconds, WorkerHorizon)
    /\ fop' = [fop EXCEPT !.pc = "sweep"]
    /\ UNCHANGED <<ctxVars, toolVars, concVars, normVars, sessions, appended,
                   uploads, outside, req>>

\* deleted_count = file_processor.cleanup_old_files(max_age_hours=2)
WorkerSweep(listing, listingFails, unremovable) ==
    /\ fop.pc = "sweep"
    /\ uploads' = CleanupOldFiles(uploads, listing, listingFails, clock,
                                  WorkerMaxAgeHours, unremovable).store
    /\ fop' = [fop EXCEPT !.pc = "sleep",
                          !.last = IF listingFails \/ unremovable /= {}
                                   THEN "failed" ELSE "clean"]
    /\ UNCHANGED <<ctxVars, toolVars, concVars, memVars, normVars, outside, req>>

\* a sweep in which no os call fails
WorkerCleanSweep == \E listing \in Listings(uploads) : WorkerSweep(listing, FALSE, {})

\* the handler of the worker for an exception raised in the try block
CleanupWorkerExcept == "backoff"

\* except Exception as e: logger.error(...)
WorkerRaise ==
    /\ fop.pc = "sweep"
    /\ fop.errors < MaxWorkerErrors
    /\ fop' = [fop EXCEPT !.pc = CleanupWorkerExcept, !.errors = @ + 1, !.last = "raised"]
    /\ UNCHANGED <<ctxVars, toolVars, concVars, memVars, normVars, uploads, outside, req>>

\* time.sleep(60), and back to the head of the loop
WorkerBackoff ==
    /\ fop.pc = "backoff"
    /\ clock' = Min(clock + BackoffSeconds, WorkerHorizon)
    /\ fop' = [fop EXCEPT !.pc = "sleep"]
    /\ UNCHANGED <<ctxVars, toolVars, concVars, normVars, sessions, appended,
                   uploads, outside, req>>

WorkerStep ==
    \/ WorkerSleep
    \/ \E listing \in Listings(uploads), listingFails \in BOOLEAN :
           \E unremovable \in Unremovable(uploads, listingFails) :
               WorkerSweep(listing, listingFails, unremovable)
    \/ WorkerRaise
    \/ WorkerBackoff

InitWorker ==
    /\ CtxIdle /\ MemIdle /\ NormIdle
    /\ uploads = <<>> /\ outside = <<>> /\ req = NoRequest /\ ConcIdle
    /\ fop = [ op |-> "worker", pc |-> "sleep", errors |-> 0, last |-> "none" ]
    /\ ToolsIdle

NextWorker ==
    \/ \E file \in WorkerFiles, sid \in WorkerSessionIds : WorkerUpload(file, sid)
    \/ WorkerStep

\* the thread is scheduled again and again, and the os calls of the sweep do
\* not fail for ever
SpecWorker ==
    InitWorker /\ [][NextWorker]_vars /\ WF_vars(WorkerStep) /\ SF_vars(WorkerCleanSweep)

\* a file stored under this name exists, inside the upload folder or not
Stored(key) == key \in DOMAIN uploads \/ key \in DOMAIN outside

\* the worker goes on for ever: a sweep is due again and again, also after
\* one that raised
WorkerGoesOn ==
    /\ []<>(fop.pc = "sweep")
    /\ []<>(fop.pc = "sleep")
    /\ (fop.pc = "backoff") ~> (fop.pc = "sweep")

\* C36: the cleanup worker never ends: after every sweep, also one that
\* raised, another sweep runs; hence, under fairness and when deletion does
\* not fail for ever, every uploaded file that nothing deletes earlier is
\* deleted by a sweep once it is more than 2 hours old.
C36_WorkerDeletesEveryUpload ==
    /\ WorkerGoesOn
    /\ \A key \in WorkerKeys : Stored(key) ~> ~Stored(key)

\* what holds: the worker goes on for ever, and every file in the upload
\* folder is deleted in the end
C36_WorkerDeletesFolderFiles ==
    /\ WorkerGoesOn
    /\ \A key \in WorkerKeys : (key \in DOMAIN uploads) ~> (key \notin DOMAIN uploads)

\* a sweep in which nothing failed has just run, and a file that was
\* uploaded more than 2 hours before it is still there
C36_Witness ==
    /\ fop.op = "worker" /\ fop.pc = "sleep" /\ fop.last = "clean"
    /\ \E key \in DOMAIN outside : TooOld(clock - outside[key].mtime, WorkerMaxAgeHours)

\* a sweep ran after one that raised and deleted a file
C36_WitnessAfterRaise ==
    /\ fop.op = "worker" /\ fop.pc = "sleep" /\ fop.last = "clean"
    /\ fop.errors > 0
    /\ uploads = <<>>
    /\ clock > WorkerMaxAgeHours * SecondsPerHour

(***************************************************************************)
(* Sessions in the file store: files are saved, listed and cleared for     *)
(* three session ids, one of which is another followed by an underscore    *)
(* and a name.  fop holds the last call and, as history, the session each  *)
(* stored name was saved for.                                              *)
(***************************************************************************)

SidC == <<"c">>

IsoSessionIds == { SidA, SidAB, SidC }

IsoFiles == { PdfA, PdfC }

IsoSave(file, sid) ==
    \E saved \in { SaveFile(uploads, outside, file, sid, FALSE, clock) } :
        /\ uploads' = saved.store
        /\ outside' = saved.outside
        /\ fop' = [ op |-> "save", session_id |-> sid,
                    owner |-> WriteFile(fop.owner, NameOf(saved.info.file_path), sid),
                    files |-> <<>>, removed |-> {} ]
        /\ UNCHANGED <<ctxVars, toolVars, concVars, memVars, normVars, req>>

IsoGetSessionFiles(sid, listing) ==
    /\ fop' = [ op |-> "list", session_id |-> sid, owner |-> fop.owner,
                files |-> GetSessionFiles(uploads, listing, sid, FALSE),
                removed |-> {} ]
    /\ UNCHANGED <<ctxVars, toolVars, concVars, memVars, normVars, uploads, outside, req>>

IsoClearSessionFiles(sid, listing) ==
    /\ uploads' = ClearSessionFiles(uploads, listing, sid, FALSE, {})
    /\ fop' = [ op |-> "clear", session_id |-> sid, owner |-> fop.owner,
                files |-> <<>>,
                removed |-> DOMAIN uploads \ DOMAIN uploads' ]
    /\ UNCHANGED <<ctxVars, toolVars, concVars, memVars, normVars, outside, req>>

InitIso ==
    /\ CtxIdle /\ MemIdle /\ NormIdle
    /\ uploads = <<>> /\ outside = <<>> /\ req = NoRequest /\ ConcIdle
    /\ fop = [ op |-> "none", session_id |-> <<>>, owner |-> <<>>, files |-> <<>>,
               removed |-> {} ]
    /\ ToolsIdle

NextIso ==
    \/ \E file \in IsoFiles, sid \in IsoSessionIds : IsoSave(file, sid)
    \/ \E sid \in IsoSessionIds, listing \in Listings(uploads) :
           IsoGetSessionFiles(sid, listing)
    \/ \E sid \in IsoSessionIds, listing \in Listings(uploads) :
           IsoClearSessionFiles(sid, listing)

SpecIso == InitIso /\ [][NextIso]_vars

\* the stored names the last call returned or deleted
IsoTouched ==
    IF fop.op = "list"
    THEN { NameOf(fop.files[j].file_path) : j \in 1..Len(fop.files) }
    ELSE IF fop.op = "clear" THEN fop.removed ELSE {}

\* C37: sessions are isolated in the file store: get_session_files(s) returns
\* no file saved for another session t and clear_session_files(s) deletes
\* none, also when one id is the other followed by an underscore and more.
C37_FileStoreIsolation ==
    \A key \in IsoTouched : fop.owner[key] = fop.session_id

\* what holds: a call for s touches only files saved for s or for a session
\* whose id starts with s and an underscore
C37_IsolationUpToPrefix ==
    \A key \in IsoTouched :
        \/ fop.owner[key] = fop.session_id
        \/ StartsWith(fop.owner[key], SessionPrefix(fop.session_id))

\* clear_session_files('a') deleted a file saved for session 'a_b'
C37_Witness ==
    /\ fop.op = "clear"
    /\ fop.session_id = SidA
    /\ \E key \in fop.removed : fop.owner[key] = SidAB

\* get_session_files('a') returned a file saved for session 'a_b'
C37_WitnessList ==
    /\ fop.op = "list"
    /\ fop.session_id = SidA
    /\ \E j \in 1..Len(fop.files) : fop.owner[NameOf(fop.files[j].file_path)] = SidAB

(***************************************************************************)
(* Sessions in the memory (checked under SpecMem)                          *)
(***************************************************************************)

\* what self.sessions holds for a session id: whether the key is there, and
\* its list
SessionEntry(sid) ==
    IF sid \in DOMAIN sessions THEN <<TRUE, sessions[sid]>> ELSE <<FALSE, <<>>>>

\* a call of add_message or of clear_session for this session id
WritesTo(sid) ==
    \/ \E human \in MemHumans, ai \in MemAis : MemAddMessage(sid, human, ai)
    \/ MemClearSession(sid)

\* C38: add_message(s, ...) and clear_session(s) leave the list of every
\* other session as it was, whatever was done before.
C38_MemoryIsolation ==
    [][\A sid \in SessionIds :
           WritesTo(sid) =>
               \A other \in SessionIds \ {sid} : SessionEntry(other)' = SessionEntry(other)]_vars

\* three exchanges were added, two of them to 'a_b'; 'a' was cleared, and
\* 'a_b' still holds its two
C38_Witness ==
    /\ clock = 4
    /\ SidA \notin DOMAIN sessions
    /\ SidAB \in DOMAIN sessions
    /\ Len(sessions[SidAB]) = 2
    /\ sessions[SidAB] = appended[SidAB]

\* get_session_info was the last call, for a session that holds exchanges
InfoOfLiveSession == mop.op = "info" /\ mop.out.message_count > 0

\* C39: as long as a session exists, from its first exchange until it is
\* cleared, the 'created' timestamp get_session_info reports is the
\* timestamp of that first exchange, however many exchanges follow.
C39_CreatedIsFirstExchange ==
    InfoOfLiveSession => mop.out.created = appended[mop.session_id][1].timestamp

\* what holds: 'created' is the timestamp of the oldest exchange still
\* stored, which is the first one up to the tenth exchange
C39_CreatedIsOldestStored ==
    InfoOfLiveSession =>
        LET all == appended[mop.session_id]
            oldest == IF Len(all) > HistoryCap THEN Len(all) - HistoryCap + 1 ELSE 1
        IN  mop.out.created = all[oldest].timestamp

\* after the eleventh exchange 'created' is the timestamp of the second
C39_Witness ==
    /\ InfoOfLiveSession
    /\ Len(appended[mop.session_id]) = HistoryCap + 1
    /\ mop.out.created = appended[mop.session_id][2].timestamp
    /\ mop.out.created /= appended[mop.session_id][1].timestamp

(***************************************************************************)
(* The session of the call and the eviction (checked under SpecCap)        *)
(***************************************************************************)

\* the last call was get_memory or add_message for a session that was held
\* and had not expired
AccessedHeldSession ==
    /\ mop.op \in {"get_memory", "add_message"}
    /\ mop.idle <= SessionTimeout

\* the exchanges of the session after the call are those before it, and the
\* one add_message saved
OwnHistoryKept ==
    mop.after = mop.before + (IF mop.op = "add_message" THEN 1 ELSE 0)

\* C40: get_memory or add_message for a session that exists and has not
\* expired never discards the history of that session: the eviction the call
\* triggers removes other sessions only.
C40_AccessKeepsOwnHistory == AccessedHeldSession => OwnHistoryKept

\* what holds: the history is kept when the manager held at most 100
\* sessions at the call
C40_AccessWithinCapKeepsOwnHistory ==
    (AccessedHeldSession /\ mop.held <= MaxSessions) => OwnHistoryKept

\* add_message for the oldest of 101 sessions: its exchange is gone and the
\* session holds the new one only
C40_Witness ==
    /\ AccessedHeldSession
    /\ mop.op = "add_message"
    /\ mop.session_id = NthSid(1)
    /\ mop.held = MaxSessions + 1
    /\ mop.before = 1
    /\ mop.after = 1
    /\ Cardinality(DOMAIN cmm.active_memories) = MaxSessions + 1
====
